---- MODULE Spec2Model ----
(***************************************************************************)
(* A model of the BoltDB key-value engine of iotex-core (package db):      *)
(* lifecycle (Start/Stop), the store contract (Put/Get/Delete/Filter/      *)
(* Range/BucketExists), the batch commit (WriteBatch) with its coalescing  *)
(* pass, the forced-failure rollback helper, and the range index           *)
(* (Insert/SeekNext/SeekPrev/Remove/Purge).                                *)
(*                                                                         *)
(* The store is the content of the bolt file: for every namespace, whether *)
(* its bucket exists and the set of <<key, value>> pairs it holds.  Keys   *)
(* are byte sequences compared as bytes.Compare does.  A write transaction *)
(* (db.Update) runs its body on a working copy and installs the copy only  *)
(* when the body and the commit succeed.  The environment decides, for     *)
(* every attempt, whether it fails, with which error, and after how many   *)
(* of the body's writes.                                                   *)
(***************************************************************************)
EXTENDS Integers, Sequences, FiniteSets, TLC

\* ------------------------------------------------------------------ bounds

\* Largest configured NumRetries explored (config.NumRetries is a uint8).
MaxRetries == 2
\* A fault strikes after 0..MaxFaultAt writes of a transaction body.
MaxFaultAt == 2
\* Largest number of operations queued in a batch.
MaxBatch == 2
\* Largest count passed to Range.
MaxCount == 3

\* ------------------------------------------------------------- input sets

Nil == <<>>

\* Namespaces of the key-value contract and the name of the range index.
Namespaces == {"ns1", "ns2"}
IndexNames == {"idx"}
AllNS == Namespaces \cup IndexNames

\* Keys of the key-value contract: byte strings of different lengths, so
\* that byte order and numeric order differ.
Keys == {<<1>>, <<1, 2>>, <<2>>}
Values == {"v1", "v2"}

\* Error kinds, as errors.Cause reports them.
ErrNone == "nil"
ErrDBNotStarted == "ErrDBNotStarted"
ErrNotExist == "ErrNotExist"
ErrBucketNotExist == "ErrBucketNotExist"
ErrIO == "ErrIO"
\* Failures of the underlying store: a generic one and syscall.ENOSPC.
EIO == "EIO"
ENOSPC == "ENOSPC"
\* log.L().Fatal: the process exits, the call does not return.
Exited == "exit"

FaultKinds == {EIO, ENOSPC}
NoFault == [kind |-> "ok", at |-> 0]
Faults == {NoFault} \cup [kind : FaultKinds, at : 0..MaxFaultAt]

\* ------------------------------------------------------------------ state

VARIABLES
    ready,       \* lifecycle.Readiness of the engine
    db,          \* b.db: "nil", "open" or "closed"
    store,       \* content of the bolt file
    numRetries,  \* b.config.NumRetries
    batch,       \* the KVStoreBatch's write queue
    exited,      \* the process was terminated by log.L().Fatal
    op,          \* the last call: its name,
    args,        \*   its arguments,
    ret,         \*   the kind of the error it returned,
    outk,        \*   the keys it returned,
    outv,        \*   the values it returned,
    flag,        \*   the boolean it returned,
    trace,       \*   the outcome of each transaction attempt it made,
    pre,         \*   the store when it was called,
    preReady,    \*   and whether the engine was ready then
    mutex,       \* b.mutex: "free" or the thread that holds it
    pc,          \* where each thread stands in Start or Stop
    tcall,       \* each thread's Start or Stop call, running or last
    bmutex,      \* the batch's mutex: "free" or the thread that holds it
    txn          \* each thread's data call, running step by step or last

vars == <<ready, db, store, numRetries, batch, exited, op, args, ret, outk,
          outv, flag, trace, pre, preReady, mutex, pc, tcall, bmutex, txn>>

\* The state of the threads that run Start and Stop step by step.
lifeVars == <<mutex, pc, tcall>>

\* The state of the threads that run data calls step by step.
concVars == <<bmutex, txn>>

\* The store, the batch, the record of the last call and the data calls in
\* steps: what a step of Start or Stop leaves alone.
dataVars == <<store, numRetries, batch, exited, op, args, ret, outk, outv,
              flag, trace, pre, preReady, concVars>>

\* ------------------------------------------------- byte strings and buckets

\* bytes.Compare
RECURSIVE Compare(_, _)
Compare(a, b) ==
    IF a = <<>> /\ b = <<>> THEN 0
    ELSE IF a = <<>> THEN -1
    ELSE IF b = <<>> THEN 1
    ELSE IF Head(a) < Head(b) THEN -1
    ELSE IF Head(a) > Head(b) THEN 1
    ELSE Compare(Tail(a), Tail(b))

NoBucket == [ex |-> FALSE, kv |-> {}]
EmptyStore == [ns \in AllNS |-> NoBucket]

\* tx.Bucket(ns) != nil
HasBucket(st, ns) == st[ns].ex

BKeys(st, ns) == {p[1] : p \in st[ns].kv}

\* bucket.Get(key): Nil when the key is absent
BucketGet(st, ns, k) ==
    IF k \in BKeys(st, ns)
    THEN <<(CHOOSE p \in st[ns].kv : p[1] = k)[2]>>
    ELSE Nil

\* the smallest key of a set of keys, Nil for the empty set
MinKey(S) ==
    IF S = {} THEN Nil
    ELSE CHOOSE k \in S : \A x \in S : Compare(k, x) <= 0

MaxKey(S) ==
    IF S = {} THEN Nil
    ELSE CHOOSE k \in S : \A x \in S : Compare(k, x) >= 0

\* Cursor.First, Cursor.Seek, Cursor.Next, Cursor.Prev: the key the cursor
\* lands on, Nil when it runs off the bucket.  A cursor is the key it is on;
\* Prev from a cursor that a Seek ran off the end yields the last key.
CursorFirst(st, ns) == MinKey(BKeys(st, ns))

CursorSeek(st, ns, k) == MinKey({x \in BKeys(st, ns) : Compare(x, k) >= 0})

CursorNext(st, ns, cur) ==
    IF cur = Nil THEN Nil
    ELSE MinKey({x \in BKeys(st, ns) : Compare(x, cur) > 0})

CursorPrev(st, ns, cur) ==
    IF cur = Nil THEN MaxKey(BKeys(st, ns))
    ELSE MaxKey({x \in BKeys(st, ns) : Compare(x, cur) < 0})

\* tx.CreateBucketIfNotExists, bucket.Put, bucket.Delete, tx.DeleteBucket
CreateBucketIfNotExists(st, ns) == [st EXCEPT ![ns].ex = TRUE]

BucketPut(st, ns, k, v) ==
    [st EXCEPT ![ns].kv = {p \in @ : p[1] # k} \cup {<<k, v>>}]

BucketDelete(st, ns, k) == [st EXCEPT ![ns].kv = {p \in @ : p[1] # k}]

DeleteBucket(st, ns) == [st EXCEPT ![ns] = NoBucket]

\* ----------------------------------------------------------- transactions

\* The running state of a transaction body: its working copy, its error and
\* the number of writes it has made.
TxBegin(st) == [st |-> st, err |-> ErrNone, n |-> 0]

\* One write of a body: it fails with the attempt's fault when the fault
\* strikes here, and otherwise replaces the working copy.
Step(t, f, newSt) ==
    IF t.err # ErrNone THEN t
    ELSE IF f.kind # "ok" /\ t.n = f.at THEN [t EXCEPT !.err = f.kind]
    ELSE [st |-> newSt, err |-> ErrNone, n |-> t.n + 1]

\* A body returns an error of its own.
Fail(t, e) == IF t.err # ErrNone THEN t ELSE [t EXCEPT !.err = e]

\* db.Update(body): the working copy is installed only when neither the body
\* nor the commit fails; otherwise the transaction is rolled back.  t is the
\* body's final state under the attempt's fault f; a fault that has not
\* struck one of the body's writes strikes the commit.
Update(st, t, f) ==
    IF t.err # ErrNone THEN [st |-> st, err |-> t.err]
    ELSE IF f.kind # "ok" /\ t.n <= f.at THEN [st |-> st, err |-> f.kind]
    ELSE [st |-> t.st, err |-> ErrNone]

\* ------------------------------------------------------------- range index

\* byteutil.Uint64ToBytesBigEndian, on words of WordBytes digits of radix
\* Radix (8 bytes of radix 256 in the program).
WordBytes == 2
Radix == 2
UintMod == Radix ^ WordBytes
Uints == 0..(UintMod - 1)

Uint64ToBytesBigEndian(x) ==
    [i \in 1..WordBytes |-> (x \div (Radix ^ (WordBytes - i))) % Radix]

\* key - 1 that stops at zero instead of wrapping around.
AnchorNoWrap(key) == IF key = 0 THEN 0 ELSE key - 1

\* key - 1 on an unsigned word
Anchor(key) == (key + UintMod - 1) % UintMod

IdxKeys == {Uint64ToBytesBigEndian(x) : x \in Uints}
\* Values of the index; a nil or empty byte slice is "".
IdxValues == {"v1", "v2"}
\* db.NotExist, the value Purge leaves on the first remaining boundary
NotExist == "<not-exist>"

\* the value the cursor returns with key k ("" with a nil key)
ValueAt(st, ns, k) == IF k = Nil THEN "" ELSE BucketGet(st, ns, k)[1]

\* --------------------------------------------------- transaction bodies

\* PutTx with a Put that leaves the value of a key already present.
PutTxKeepOld(st, ns, key, value, f) ==
    LET t1 == Step(TxBegin(st), f, CreateBucketIfNotExists(st, ns))
    IN  IF key \in BKeys(st, ns) THEN Step(t1, f, t1.st)
        ELSE Step(t1, f, BucketPut(t1.st, ns, key, value))

\* Put, lines 103-109
PutTx(st, ns, key, value, f) ==
    LET t1 == Step(TxBegin(st), f, CreateBucketIfNotExists(st, ns))
    IN  Step(t1, f, BucketPut(t1.st, ns, key, value))

\* DeleteTx that drops the whole bucket for a key as well.
DeleteTxWholeBucket(st, ns, key, f) ==
    IF ~HasBucket(st, ns) THEN TxBegin(st)
    ELSE Step(TxBegin(st), f, DeleteBucket(st, ns))

\* Delete, lines 294-309: tx.DeleteBucket's ErrBucketNotFound and a missing
\* bucket are not errors.
DeleteTx(st, ns, key, f) ==
    IF ~HasBucket(st, ns) THEN TxBegin(st)
    ELSE IF key = Nil THEN Step(TxBegin(st), f, DeleteBucket(st, ns))
    ELSE Step(TxBegin(st), f, BucketDelete(st, ns, key))

\* Uniq that scans the batch forward and so keeps the first write of a key.
RECURSIVE UniqForward(_, _, _, _)
UniqForward(b, i, seen, acc) ==
    IF i < 1 THEN acc
    ELSE LET w == b[Len(b) + 1 - i]
             k == <<w.ns, w.key>>
         IN  IF k \in seen THEN UniqForward(b, i - 1, seen, acc)
             ELSE UniqForward(b, i - 1, seen \cup {k}, <<w>> \o acc)

\* WriteBatch, lines 337-353: scanning from the last entry backward, the
\* first entry seen for each (namespace, key) is kept.
RECURSIVE Uniq(_, _, _, _)
Uniq(b, i, seen, acc) ==
    IF i < 1 THEN acc
    ELSE LET w == b[i]
             k == <<w.ns, w.key>>
         IN  IF k \in seen THEN Uniq(b, i - 1, seen, acc)
             ELSE Uniq(b, i - 1, seen \cup {k}, Append(acc, w))

\* UniqEntries that keeps every entry of the batch, the last one first.
UniqKeepAll(b) == [i \in 1..Len(b) |-> b[Len(b) + 1 - i]]

UniqEntries(b) == Uniq(b, Len(b), {}, <<>>)

\* ApplyWrite whose Delete creates the bucket it does not find.
ApplyWriteCreateOnDelete(t, w, f) ==
    LET t1 == Step(t, f, CreateBucketIfNotExists(t.st, w.ns))
    IN  IF w.type = "Put"
        THEN Step(t1, f, BucketPut(t1.st, w.ns, w.key, w.val))
        ELSE Step(t1, f, BucketDelete(t1.st, w.ns, w.key))

\* WriteBatch, lines 359-383: one entry applied inside the transaction.
ApplyWrite(t, w, f) ==
    IF w.type = "Put"
    THEN LET t1 == Step(t, f, CreateBucketIfNotExists(t.st, w.ns))
         IN  Step(t1, f, BucketPut(t1.st, w.ns, w.key, w.val))
    ELSE IF ~HasBucket(t.st, w.ns) THEN t
    ELSE Step(t, f, BucketDelete(t.st, w.ns, w.key))

\* ApplyWrites that goes on to the next entry after a failed write.
RECURSIVE ApplyWritesSkipFailed(_, _, _, _)
ApplyWritesSkipFailed(t, uniq, i, f) ==
    IF i < 1 THEN t
    ELSE LET t2 == ApplyWrite(t, uniq[i], f)
         IN  ApplyWritesSkipFailed(
                 IF t2.err # ErrNone
                 THEN [st |-> t.st, err |-> ErrNone, n |-> t2.n + 1]
                 ELSE t2,
                 uniq, i - 1, f)

\* WriteBatch, lines 357-385: the unique entries are applied from the last
\* of uniqEntries to the first, the order of the batch; the first error
\* ends the body.
RECURSIVE ApplyWrites(_, _, _, _)
ApplyWrites(t, uniq, i, f) ==
    IF i < 1 \/ t.err # ErrNone THEN t
    ELSE ApplyWrites(ApplyWrite(t, uniq[i], f), uniq, i - 1, f)

\* WriteBatchTx that refuses a batch without entries.
WriteBatchTxRejectEmpty(st, ents, f) ==
    LET uniq == UniqEntries(ents)
    IN  IF Len(ents) = 0 THEN Fail(TxBegin(st), ErrIO)
        ELSE ApplyWrites(TxBegin(st), uniq, Len(uniq), f)

WriteBatchTx(st, ents, f) ==
    LET uniq == UniqEntries(ents)
    IN  ApplyWrites(TxBegin(st), uniq, Len(uniq), f)

\* InsertTx that writes no boundary at the anchor.
InsertTxNoSplit(st, name, key, value, f) ==
    IF ~HasBucket(st, name) THEN Fail(TxBegin(st), ErrBucketNotExist)
    ELSE LET ak == Uint64ToBytesBigEndian(Anchor(key))
             k  == CursorSeek(st, name, ak)
             k2 == IF k # ak THEN k ELSE CursorNext(st, name, k)
         IN  IF k2 # Nil
             THEN Step(TxBegin(st), f, BucketPut(st, name, k2, value))
             ELSE TxBegin(st)

\* InsertTx that writes the new value, not the sought one, at the anchor.
InsertTxAnchorValue(st, name, key, value, f) ==
    IF ~HasBucket(st, name) THEN Fail(TxBegin(st), ErrBucketNotExist)
    ELSE LET ak == Uint64ToBytesBigEndian(Anchor(key))
             k  == CursorSeek(st, name, ak)
             t1 == IF k # ak
                   THEN Step(TxBegin(st), f, BucketPut(st, name, ak, value))
                   ELSE TxBegin(st)
             k2 == IF k # ak THEN k ELSE CursorNext(st, name, k)
         IN  IF k2 # Nil
             THEN Step(t1, f, BucketPut(t1.st, name, k2, value))
             ELSE t1

\* Insert, lines 430-449
InsertTx(st, name, key, value, f) ==
    IF ~HasBucket(st, name) THEN Fail(TxBegin(st), ErrBucketNotExist)
    ELSE LET ak == Uint64ToBytesBigEndian(Anchor(key))
             k  == CursorSeek(st, name, ak)
             v  == ValueAt(st, name, k)
             t1 == IF k # ak
                   THEN Step(TxBegin(st), f, BucketPut(st, name, ak, v))
                   ELSE TxBegin(st)
             k2 == IF k # ak THEN k ELSE CursorNext(st, name, k)
         IN  IF k2 # Nil
             THEN Step(t1, f, BucketPut(t1.st, name, k2, value))
             ELSE t1

\* RemoveTx that deletes the anchor and writes nothing onto the next key.
RemoveTxNoCarry(st, name, key, f) ==
    IF ~HasBucket(st, name) THEN Fail(TxBegin(st), ErrBucketNotExist)
    ELSE LET ak == Uint64ToBytesBigEndian(Anchor(key))
             k  == CursorSeek(st, name, ak)
         IN  IF k # ak THEN TxBegin(st)
             ELSE Step(TxBegin(st), f, BucketDelete(st, name, ak))

\* Remove, lines 522-541
RemoveTx(st, name, key, f) ==
    IF ~HasBucket(st, name) THEN Fail(TxBegin(st), ErrBucketNotExist)
    ELSE LET ak == Uint64ToBytesBigEndian(Anchor(key))
             k  == CursorSeek(st, name, ak)
             v  == ValueAt(st, name, k)
         IN  IF k # ak THEN TxBegin(st)
             ELSE LET t1 == Step(TxBegin(st), f, BucketDelete(st, name, ak))
                      k2 == CursorNext(st, name, ak)
                  IN  IF k2 # Nil
                      THEN Step(t1, f, BucketPut(t1.st, name, k2, v))
                      ELSE t1

\* PurgeLoop that deletes the first key the cursor reaches and stops.
PurgeLoopOnce(t, name, k, f) ==
    IF k = Nil \/ t.err # ErrNone THEN t
    ELSE Step(t, f, BucketDelete(t.st, name, k))

\* Purge, lines 572-576: every key the cursor reaches going backward is
\* deleted.
RECURSIVE PurgeLoop(_, _, _, _)
PurgeLoop(t, name, k, f) ==
    IF k = Nil \/ t.err # ErrNone THEN t
    ELSE PurgeLoop(Step(t, f, BucketDelete(t.st, name, k)), name,
                   CursorPrev(t.st, name, k), f)

\* Purge, lines 565-581
PurgeTx(st, name, key, f) ==
    IF ~HasBucket(st, name) THEN Fail(TxBegin(st), ErrBucketNotExist)
    ELSE LET nk == CursorSeek(st, name, Uint64ToBytesBigEndian(key))
             t1 == PurgeLoop(TxBegin(st), name, CursorPrev(st, name, nk), f)
         IN  IF nk # Nil
             THEN Step(t1, f, BucketPut(t1.st, name, nk, NotExist))
             ELSE t1

\* The body of the write call o with arguments a.
TxBody(st, o, a, f) ==
    CASE o = "Put" -> PutTx(st, a.ns, a.key, a.val, f)
      [] o = "Delete" -> DeleteTx(st, a.ns, a.key, f)
      [] o = "WriteBatch" -> WriteBatchTx(st, a.ents, f)
      [] o = "Insert" -> InsertTx(st, a.ns, a.key, a.val, f)
      [] o = "Remove" -> RemoveTx(st, a.ns, a.key, f)
      [] o = "Purge" -> PurgeTx(st, a.ns, a.key, f)

\* ------------------------------------------------------------ retry loop

\* Retry that makes all n attempts, whether or not one has committed.
RECURSIVE RetryNoBreak(_, _, _, _, _, _)
RetryNoBreak(r, o, a, fs, c, n) ==
    IF ~(c < n) THEN r
    ELSE LET f == fs[c + 1]
             u == Update(r.st, TxBody(r.st, o, a, f), f)
             r2 == [st |-> u.st, err |-> u.err,
                    trace |-> Append(r.trace, u.err)]
         IN  RetryNoBreak(r2, o, a, fs, c + 1, n)

\* for c := uint8(0); c < NumRetries; c++ { if err = db.Update(...);
\* err == nil { break } }: r carries the store, the last error (nil before
\* the first attempt) and the outcome of every attempt made.
RECURSIVE Retry(_, _, _, _, _, _)
Retry(r, o, a, fs, c, n) ==
    IF ~(c < n) THEN r
    ELSE LET f == fs[c + 1]
             u == Update(r.st, TxBody(r.st, o, a, f), f)
             r2 == [st |-> u.st, err |-> u.err,
                    trace |-> Append(r.trace, u.err)]
         IN  IF u.err = ErrNone THEN r2
             ELSE Retry(r2, o, a, fs, c + 1, n)

RetryStart(st) == [st |-> st, err |-> ErrNone, trace |-> <<>>]

\* if err != nil { if errors.Is(err, syscall.ENOSPC) { log.L().Fatal(...) };
\* err = errors.Wrap(ErrIO, err.Error()) }; return err
Outcome(err) ==
    IF err = ErrNone THEN ErrNone
    ELSE IF err = ENOSPC THEN Exited
    ELSE ErrIO

\* The faults the environment deals to the attempts of one call: attempts
\* fail, each with one of the two kinds and after `at` writes of its body,
\* until one succeeds; the attempts after a success are never made.
FaultSeqs(n) ==
    {[i \in 1..n |-> IF kinds[i] = "ok" THEN NoFault
                     ELSE [kind |-> kinds[i], at |-> at]] :
        kinds \in {ks \in [1..n -> {"ok"} \cup FaultKinds] :
                     \A i \in 1..(n - 1) : ks[i] = "ok" => ks[i + 1] = "ok"},
        at \in 0..MaxFaultAt}

\* ------------------------------------------------------------ readiness

\* lifecycle.Readiness: IsReady, TurnOn, TurnOff
IsReady == ready

TurnOn == ready' = TRUE

TurnOff == ready' = FALSE

\* ------------------------------------------------------------ the record

NoArgs ==
    [ns |-> "", key |-> Nil, val |-> "", max |-> Nil, count |-> 0,
     cond |-> "", ents |-> <<>>, keys |-> <<>>, vals |-> <<>>]

\* What the call o(a) returned: error kind e, keys ks, values vs, boolean b,
\* after the transaction attempts tr.
Return(o, a, e, ks, vs, b, tr) ==
    /\ op' = o
    /\ args' = a
    /\ ret' = e
    /\ outk' = ks
    /\ outv' = vs
    /\ flag' = b
    /\ trace' = tr
    /\ pre' = store
    /\ preReady' = ready
    /\ UNCHANGED lifeVars
    /\ UNCHANGED concVars

\* if !b.IsReady() { return ErrDBNotStarted }
NotStarted(o, a) ==
    /\ ~IsReady
    /\ Return(o, a, ErrDBNotStarted, Nil, Nil, FALSE, <<>>)
    /\ UNCHANGED <<ready, db, store, numRetries, batch, exited>>

\* A write call on a ready engine: the retry loop, then the error handling.
WriteReady(o, a) ==
    /\ IsReady
    /\ \E fs \in FaultSeqs(numRetries) :
          LET r == Retry(RetryStart(store), o, a, fs, 0, numRetries)
          IN  /\ store' = r.st
              /\ exited' = (Outcome(r.err) = Exited)
              /\ Return(o, a, Outcome(r.err), Nil, Nil, FALSE, r.trace)
    /\ UNCHANGED <<ready, db, numRetries, batch>>

\* WriteCall without the readiness check.
WriteCallUnchecked(o, a) ==
    /\ ~exited
    /\ \E fs \in FaultSeqs(numRetries) :
          LET r == Retry(RetryStart(store), o, a, fs, 0, numRetries)
          IN  /\ store' = r.st
              /\ exited' = (Outcome(r.err) = Exited)
              /\ Return(o, a, Outcome(r.err), Nil, Nil, FALSE, r.trace)
    /\ UNCHANGED <<ready, db, numRetries, batch>>

\* Put, lines 97-120, and the other write calls alike: not ready, or the
\* retry loop.
WriteCall(o, a) ==
    /\ ~exited
    /\ (NotStarted(o, a) \/ WriteReady(o, a))

\* -------------------------------------------------------------- lifecycle

\* Start, lines 60-77: bolt.Open succeeds or fails.
Start(opened) ==
    /\ ~exited
    /\ IF IsReady
       THEN /\ UNCHANGED <<ready, db>>
            /\ Return("Start", NoArgs, ErrNone, Nil, Nil, FALSE, <<>>)
       ELSE IF ~opened
       THEN /\ UNCHANGED <<ready, db>>
            /\ Return("Start", NoArgs, ErrIO, Nil, Nil, FALSE, <<>>)
       ELSE /\ db' = "open"
            /\ TurnOn
            /\ Return("Start", NoArgs, ErrNone, Nil, Nil, FALSE, <<>>)
    /\ UNCHANGED <<store, numRetries, batch, exited>>

\* Stop, lines 80-94: b.db.Close succeeds or fails; the handle is closed
\* either way.
Stop(closed) ==
    /\ ~exited
    /\ IF ~IsReady
       THEN /\ UNCHANGED <<ready, db>>
            /\ Return("Stop", NoArgs, ErrNone, Nil, Nil, FALSE, <<>>)
       ELSE /\ TurnOff
            /\ db' = "closed"
            /\ Return("Stop", NoArgs, IF closed THEN ErrNone ELSE ErrIO,
                      Nil, Nil, FALSE, <<>>)
    /\ UNCHANGED <<store, numRetries, batch, exited>>

\* ------------------------------------------------------- the store contract

\* Put, lines 97-120
Put(ns, key, value) ==
    WriteCall("Put", [NoArgs EXCEPT !.ns = ns, !.key = key, !.val = value])

\* Delete, lines 287-321
Delete(ns, key) ==
    WriteCall("Delete", [NoArgs EXCEPT !.ns = ns, !.key = key])

\* GetView that reports a missing bucket with its own kind.
GetViewBucketKind(st, ns, key) ==
    IF ~HasBucket(st, ns) THEN [err |-> ErrBucketNotExist, v |-> Nil]
    ELSE IF BucketGet(st, ns, key) = Nil THEN [err |-> ErrNotExist, v |-> Nil]
    ELSE [err |-> ErrNone, v |-> BucketGet(st, ns, key)]

\* Get, lines 129-149: the error and the value of the read transaction
GetView(st, ns, key) ==
    IF ~HasBucket(st, ns) THEN [err |-> ErrNotExist, v |-> Nil]
    ELSE IF BucketGet(st, ns, key) = Nil THEN [err |-> ErrNotExist, v |-> Nil]
    ELSE [err |-> ErrNone, v |-> BucketGet(st, ns, key)]

\* A read call: nothing but the record changes.
ReadCall(o, a, e, ks, vs) ==
    /\ ~exited
    /\ IF ~IsReady
       THEN Return(o, a, ErrDBNotStarted, Nil, Nil, FALSE, <<>>)
       ELSE Return(o, a, e, ks, vs, FALSE, <<>>)
    /\ UNCHANGED <<ready, db, store, numRetries, batch, exited>>

\* Get, lines 123-150
Get(ns, key) ==
    LET g == GetView(store, ns, key)
    IN  ReadCall("Get", [NoArgs EXCEPT !.ns = ns, !.key = key],
                 g.err, Nil, g.v)

\* The conditions passed to Filter.
Conds == {"all", "isV1", "prefix1"}

Cond(c, k, v) ==
    CASE c = "all" -> TRUE
      [] c = "isV1" -> v = "v1"
      [] c = "prefix1" -> Head(k) = 1

\* FilterLoop that stops at maxKey itself.
RECURSIVE FilterLoopStopEarly(_, _, _, _, _, _)
FilterLoopStopEarly(st, ns, k, c, maxKey, acc) ==
    IF k = Nil THEN acc
    ELSE IF Len(maxKey) > 0 /\ Compare(k, maxKey) >= 0 THEN acc
    ELSE LET v == BucketGet(st, ns, k)[1]
             acc2 == IF Cond(c, k, v)
                     THEN [fk |-> Append(acc.fk, k), fv |-> Append(acc.fv, v)]
                     ELSE acc
         IN  FilterLoopStopEarly(st, ns, CursorNext(st, ns, k), c, maxKey, acc2)

\* Filter, lines 178-190: the scan from the cursor's key k on
RECURSIVE FilterLoop(_, _, _, _, _, _)
FilterLoop(st, ns, k, c, maxKey, acc) ==
    IF k = Nil THEN acc
    ELSE IF Len(maxKey) > 0 /\ Compare(k, maxKey) = 1 THEN acc
    ELSE LET v == BucketGet(st, ns, k)[1]
             acc2 == IF Cond(c, k, v)
                     THEN [fk |-> Append(acc.fk, k), fv |-> Append(acc.fv, v)]
                     ELSE acc
         IN  FilterLoop(st, ns, CursorNext(st, ns, k), c, maxKey, acc2)

\* FilterView that reports a missing bucket as a scan without a match.
FilterViewOneKind(st, ns, c, minKey, maxKey) ==
    LET k0 == IF Len(minKey) > 0 THEN CursorSeek(st, ns, minKey)
              ELSE CursorFirst(st, ns)
        r  == FilterLoop(st, ns, k0, c, maxKey, [fk |-> <<>>, fv |-> <<>>])
    IN  IF Len(r.fk) = 0
        THEN [err |-> ErrNotExist, fk |-> Nil, fv |-> Nil]
        ELSE [err |-> ErrNone, fk |-> r.fk, fv |-> r.fv]

\* Filter, lines 159-199
FilterView(st, ns, c, minKey, maxKey) ==
    IF ~HasBucket(st, ns)
    THEN [err |-> ErrBucketNotExist, fk |-> Nil, fv |-> Nil]
    ELSE LET k0 == IF Len(minKey) > 0 THEN CursorSeek(st, ns, minKey)
                   ELSE CursorFirst(st, ns)
             r  == FilterLoop(st, ns, k0, c, maxKey, [fk |-> <<>>, fv |-> <<>>])
         IN  IF Len(r.fk) = 0
             THEN [err |-> ErrNotExist, fk |-> Nil, fv |-> Nil]
             ELSE [err |-> ErrNone, fk |-> r.fk, fv |-> r.fv]

\* Filter, lines 153-200
Filter(ns, c, minKey, maxKey) ==
    LET r == FilterView(store, ns, c, minKey, maxKey)
    IN  ReadCall("Filter",
                 [NoArgs EXCEPT !.ns = ns, !.cond = c, !.key = minKey,
                                !.max = maxKey],
                 r.err, r.fk, r.fv)

\* Range, lines 221-228: count values from the cursor's key k on
RECURSIVE RangeLoop(_, _, _, _, _, _)
RangeLoop(st, ns, k, i, count, acc) ==
    IF ~(i < count) THEN [err |-> ErrNone, v |-> acc]
    ELSE IF k = Nil THEN [err |-> ErrNotExist, v |-> Nil]
    ELSE RangeLoop(st, ns, CursorNext(st, ns, k), i + 1, count,
                   Append(acc, BucketGet(st, ns, k)[1]))

\* Range, lines 209-230
RangeView(st, ns, key, count) ==
    IF ~HasBucket(st, ns) THEN [err |-> ErrNotExist, v |-> Nil]
    ELSE IF CursorSeek(st, ns, key) = Nil THEN [err |-> ErrNotExist, v |-> Nil]
    ELSE RangeLoop(st, ns, CursorSeek(st, ns, key), 0, count, <<>>)

\* Range, lines 203-238
Range(ns, key, count) ==
    LET r == RangeView(store, ns, key, count)
    IN  ReadCall("Range", [NoArgs EXCEPT !.ns = ns, !.key = key,
                                         !.count = count],
                 r.err, Nil, r.v)

\* BucketExists, lines 400-415: false, and no error, when not ready
BucketExists(ns) ==
    /\ ~exited
    /\ Return("BucketExists", [NoArgs EXCEPT !.ns = ns], ErrNone, Nil, Nil,
              IsReady /\ HasBucket(store, ns), <<>>)
    /\ UNCHANGED <<ready, db, store, numRetries, batch, exited>>

\* --------------------------------------------------------------- the batch

\* batch.KVStoreBatch: Put, Delete and Clear of the write queue
BatchPut(ns, key, value) ==
    /\ ~exited
    /\ Len(batch) < MaxBatch
    /\ batch' = Append(batch, [type |-> "Put", ns |-> ns, key |-> key,
                               val |-> value])
    /\ Return("batch.Put", [NoArgs EXCEPT !.ns = ns, !.key = key,
                                          !.val = value],
              ErrNone, Nil, Nil, FALSE, <<>>)
    /\ UNCHANGED <<ready, db, store, numRetries, exited>>

BatchDelete(ns, key) ==
    /\ ~exited
    /\ Len(batch) < MaxBatch
    /\ batch' = Append(batch, [type |-> "Delete", ns |-> ns, key |-> key,
                               val |-> ""])
    /\ Return("batch.Delete", [NoArgs EXCEPT !.ns = ns, !.key = key],
              ErrNone, Nil, Nil, FALSE, <<>>)
    /\ UNCHANGED <<ready, db, store, numRetries, exited>>

BatchClear ==
    /\ ~exited
    /\ batch' = <<>>
    /\ Return("batch.Clear", NoArgs, ErrNone, Nil, Nil, FALSE, <<>>)
    /\ UNCHANGED <<ready, db, store, numRetries, exited>>

\* WriteBatch, lines 324-397: the batch is left as it is.
WriteBatch ==
    WriteCall("WriteBatch", [NoArgs EXCEPT !.ents = batch])

\* batchPutForceFail, lines 614-622
RECURSIVE ForceLoop(_, _, _, _, _, _)
ForceLoop(t, ns, keys, vals, i, f) ==
    IF i > Len(keys) \/ t.err # ErrNone THEN t
    ELSE LET t2 == Step(t, f, BucketPut(t.st, ns, keys[i], vals[i]))
         IN  IF i = Len(keys) THEN Fail(t2, ErrIO)
             ELSE ForceLoop(t2, ns, keys, vals, i + 1, f)

\* batchPutForceFail, lines 606-624
ForceFailTx(st, ns, keys, vals, f) ==
    LET t1 == Step(TxBegin(st), f, CreateBucketIfNotExists(st, ns))
    IN  IF Len(keys) # Len(vals) THEN Fail(t1, ErrIO)
        ELSE ForceLoop(t1, ns, keys, vals, 1, f)

\* batchPutForceFail, lines 601-625: one transaction, no retry; the error of
\* db.Update is returned as it is.
BatchPutForceFail(ns, keys, vals) ==
    LET a == [NoArgs EXCEPT !.ns = ns, !.keys = keys, !.vals = vals]
    IN  /\ ~exited
        /\ \/ NotStarted("batchPutForceFail", a)
           \/ /\ IsReady
              /\ \E f \in Faults :
                    LET u == Update(store, ForceFailTx(store, ns, keys, vals, f), f)
                    IN  /\ store' = u.st
                        /\ Return("batchPutForceFail", a, u.err, Nil, Nil,
                                  FALSE, <<u.err>>)
              /\ UNCHANGED <<ready, db, numRetries, batch, exited>>

\* ------------------------------------------------------ range index calls

\* Insert, lines 422-461
Insert(name, key, value) ==
    WriteCall("Insert", [NoArgs EXCEPT !.ns = name, !.key = key, !.val = value])

\* Remove, lines 514-554
Remove(name, key) ==
    WriteCall("Remove", [NoArgs EXCEPT !.ns = name, !.key = key])

\* Purge, lines 557-594
Purge(name, key) ==
    WriteCall("Purge", [NoArgs EXCEPT !.ns = name, !.key = key])

\* SeekNextView whose cursor lands on the first boundary after key.
SeekNextViewStrict(st, name, key) ==
    IF ~HasBucket(st, name) THEN [err |-> ErrBucketNotExist, v |-> Nil]
    ELSE [err |-> ErrNone,
          v |-> <<ValueAt(st, name,
                          CursorNext(st, name, Uint64ToBytesBigEndian(key)))>>]

\* SeekNext, lines 470-481: a copy of the value the cursor lands on
SeekNextView(st, name, key) ==
    IF ~HasBucket(st, name) THEN [err |-> ErrBucketNotExist, v |-> Nil]
    ELSE [err |-> ErrNone,
          v |-> <<ValueAt(st, name,
                          CursorSeek(st, name, Uint64ToBytesBigEndian(key)))>>]

\* SeekNext, lines 464-486
SeekNext(name, key) ==
    LET r == SeekNextView(store, name, key)
    IN  ReadCall("SeekNext", [NoArgs EXCEPT !.ns = name, !.key = key],
                 r.err, Nil, r.v)

\* SeekPrevView that yields the value at key when a boundary is there and
\* the value of the boundary before it otherwise.
SeekPrevViewAtKey(st, name, key) ==
    IF ~HasBucket(st, name) THEN [err |-> ErrBucketNotExist, v |-> Nil]
    ELSE LET k == CursorSeek(st, name, Uint64ToBytesBigEndian(key))
         IN  [err |-> ErrNone,
              v |-> <<ValueAt(st, name,
                              IF k = Uint64ToBytesBigEndian(key) THEN k
                              ELSE CursorPrev(st, name, k))>>]

\* SeekPrev, lines 495-507
SeekPrevView(st, name, key) ==
    IF ~HasBucket(st, name) THEN [err |-> ErrBucketNotExist, v |-> Nil]
    ELSE LET k == CursorSeek(st, name, Uint64ToBytesBigEndian(key))
         IN  [err |-> ErrNone,
              v |-> <<ValueAt(st, name, CursorPrev(st, name, k))>>]

\* SeekPrev, lines 489-511
SeekPrev(name, key) ==
    LET r == SeekPrevView(store, name, key)
    IN  ReadCall("SeekPrev", [NoArgs EXCEPT !.ns = name, !.key = key],
                 r.err, Nil, r.v)

\* ------------------------------------------------- lifecycle step by step

\* The threads that call Start and Stop concurrently.
Threads == {"t1", "t2"}

\* A thread's call: whether its readiness check found the engine ready,
\* whether it opened a handle, whether its open failed, whether it closed
\* the handle, and the error it returns.
NoCall ==
    [op |-> "none", sawReady |-> FALSE, opened |-> FALSE,
     openFailed |-> FALSE, closed |-> FALSE, ret |-> ErrNone]

\* b.mutex.Lock() of Start and Stop, lines 61 and 81
Lock(t, o) ==
    /\ pc[t] = "idle"
    /\ mutex = "free"
    /\ mutex' = t
    /\ pc' = [pc EXCEPT ![t] = "check"]
    /\ tcall' = [tcall EXCEPT ![t] = [NoCall EXCEPT !.op = o]]
    /\ UNCHANGED <<ready, db>>
    /\ UNCHANGED dataVars

\* StartCheck that goes on to open the file whatever the readiness.
StartCheckAlwaysOpen(t) ==
    /\ pc[t] = "check"
    /\ tcall[t].op = "Start"
    /\ tcall' = [tcall EXCEPT ![t].sawReady = IsReady]
    /\ pc' = [pc EXCEPT ![t] = "open"]
    /\ UNCHANGED <<ready, db, mutex>>
    /\ UNCHANGED dataVars

\* Start, lines 64-66: if b.IsReady() { return nil }
StartCheck(t) ==
    /\ pc[t] = "check"
    /\ tcall[t].op = "Start"
    /\ tcall' = [tcall EXCEPT ![t].sawReady = IsReady]
    /\ pc' = [pc EXCEPT ![t] = IF IsReady THEN "unlock" ELSE "open"]
    /\ UNCHANGED <<ready, db, mutex>>
    /\ UNCHANGED dataVars

\* Start, lines 71-74: bolt.Open succeeds, or fails and Start returns ErrIO.
StartOpen(t, opened) ==
    /\ pc[t] = "open"
    /\ IF opened
       THEN /\ tcall' = [tcall EXCEPT ![t].opened = TRUE]
            /\ pc' = [pc EXCEPT ![t] = "assign"]
       ELSE /\ tcall' = [tcall EXCEPT ![t].openFailed = TRUE, ![t].ret = ErrIO]
            /\ pc' = [pc EXCEPT ![t] = "unlock"]
    /\ UNCHANGED <<ready, db, mutex>>
    /\ UNCHANGED dataVars

\* Start, line 75: b.db = db
StartAssign(t) ==
    /\ pc[t] = "assign"
    /\ db' = "open"
    /\ pc' = [pc EXCEPT ![t] = "turnon"]
    /\ UNCHANGED <<ready, mutex, tcall>>
    /\ UNCHANGED dataVars

\* Start, line 76: return b.TurnOn()
StartTurnOn(t) ==
    /\ pc[t] = "turnon"
    /\ TurnOn
    /\ pc' = [pc EXCEPT ![t] = "unlock"]
    /\ UNCHANGED <<db, mutex, tcall>>
    /\ UNCHANGED dataVars

\* StopCheck that goes on to close the handle with the readiness still on.
StopCheckCloseFirst(t) ==
    /\ pc[t] = "check"
    /\ tcall[t].op = "Stop"
    /\ tcall' = [tcall EXCEPT ![t].sawReady = IsReady]
    /\ pc' = [pc EXCEPT ![t] = IF IsReady THEN "close" ELSE "unlock"]
    /\ UNCHANGED <<ready, db, mutex>>
    /\ UNCHANGED dataVars

\* Stop, lines 84-86: if !b.IsReady() { return nil }
StopCheck(t) ==
    /\ pc[t] = "check"
    /\ tcall[t].op = "Stop"
    /\ tcall' = [tcall EXCEPT ![t].sawReady = IsReady]
    /\ pc' = [pc EXCEPT ![t] = IF IsReady THEN "turnoff" ELSE "unlock"]
    /\ UNCHANGED <<ready, db, mutex>>
    /\ UNCHANGED dataVars

\* Stop, lines 87-89: b.TurnOff()
StopTurnOff(t) ==
    /\ pc[t] = "turnoff"
    /\ TurnOff
    /\ pc' = [pc EXCEPT ![t] = "close"]
    /\ UNCHANGED <<db, mutex, tcall>>
    /\ UNCHANGED dataVars

\* Stop, lines 90-93: b.db.Close() succeeds, or fails and Stop returns ErrIO;
\* the handle is closed either way.
StopClose(t, closed) ==
    /\ pc[t] = "close"
    /\ db' = "closed"
    /\ tcall' = [tcall EXCEPT ![t].closed = TRUE,
                              ![t].ret = IF closed THEN ErrNone ELSE ErrIO]
    /\ pc' = [pc EXCEPT ![t] = "unlock"]
    /\ UNCHANGED <<ready, mutex>>
    /\ UNCHANGED dataVars

\* defer b.mutex.Unlock() of Start and Stop, lines 62 and 82
Unlock(t) ==
    /\ pc[t] = "unlock"
    /\ mutex' = "free"
    /\ pc' = [pc EXCEPT ![t] = "idle"]
    /\ UNCHANGED <<ready, db, tcall>>
    /\ UNCHANGED dataVars

\* ------------------------------------------------ data calls step by step

\* The error of kvsb.Entry(i) for an index outside the write queue.
ErrEntry == "batch.Entry"

\* A thread's data call: where it stands, its name and arguments, the loop
\* index i, the keys seen and the unique entries collected by WriteBatch,
\* its attempt counter c, the working copy or snapshot tx of its
\* transaction, the cursor's key k, the error of the last attempt, what the
\* call returns (ret, fk, fv), and for the statement of the properties the
\* write queue when the lock was taken (atLock), the store when the write
\* transaction began (base) and the store installed by the first commit
\* since the read transaction began (after: the snapshot, when there was
\* none).
NoTxn ==
    [pc |-> "idle", op |-> "none", a |-> NoArgs, i |-> 0, seen |-> {},
     uniq |-> <<>>, c |-> 0, tx |-> TxBegin(EmptyStore), k |-> Nil,
     err |-> ErrNone, ret |-> ErrNone, fk |-> Nil, fv |-> Nil,
     atLock |-> <<>>, base |-> EmptyStore, after |-> EmptyStore]

\* What a step of a data call leaves alone besides the store, the batch's
\* mutex and the calls in steps.
StepFrame ==
    /\ UNCHANGED <<ready, db, numRetries, batch, exited, op, args, ret, outk,
                   outv, flag, trace, pre, preReady>>
    /\ UNCHANGED lifeVars

\* WriteBatchLock that goes on to read the batch without taking its lock.
WriteBatchLockNone(t) ==
    /\ txn[t].pc = "idle"
    /\ ~exited
    /\ txn' = [txn EXCEPT ![t] =
                  IF ~IsReady
                  THEN [NoTxn EXCEPT !.op = "WriteBatch",
                                     !.ret = ErrDBNotStarted]
                  ELSE [NoTxn EXCEPT !.op = "WriteBatch",
                                     !.pc = IF Len(batch) = 0 THEN "update"
                                            ELSE "read",
                                     !.i = Len(batch),
                                     !.atLock = batch]]
    /\ UNCHANGED <<bmutex, store>>
    /\ StepFrame

\* WriteBatch, lines 325-337: if !b.IsReady() { return ErrDBNotStarted };
\* kvsb.Lock(), which waits while the mutex is held; defer kvsb.Unlock();
\* i := kvsb.Size() - 1
WriteBatchLock(t) ==
    /\ txn[t].pc = "idle"
    /\ ~exited
    /\ IF ~IsReady
       THEN /\ txn' = [txn EXCEPT ![t] =
                          [NoTxn EXCEPT !.op = "WriteBatch",
                                        !.ret = ErrDBNotStarted]]
            /\ UNCHANGED bmutex
       ELSE /\ bmutex = "free"
            /\ bmutex' = t
            /\ txn' = [txn EXCEPT ![t] =
                          [NoTxn EXCEPT !.op = "WriteBatch",
                                        !.pc = IF Len(batch) = 0 THEN "update"
                                               ELSE "read",
                                        !.i = Len(batch),
                                        !.atLock = batch]]
    /\ UNCHANGED store
    /\ StepFrame

\* WriteBatch, lines 337-353: one turn of the loop over the entries, from
\* the last to the first; an entry that cannot be read ends the call with
\* its error.
WriteBatchEntry(t) ==
    /\ txn[t].pc = "read"
    /\ LET c == txn[t]
       IN  IF c.i > Len(batch)
           THEN txn' = [txn EXCEPT ![t].ret = ErrEntry, ![t].pc = "unlock"]
           ELSE LET w == batch[c.i]
                    k == <<w.ns, w.key>>
                IN  txn' = [txn EXCEPT
                               ![t].seen = c.seen \cup {k},
                               ![t].uniq = IF k \in c.seen THEN c.uniq
                                           ELSE Append(c.uniq, w),
                               ![t].i = c.i - 1,
                               ![t].pc = IF c.i = 1 THEN "update" ELSE "read"]
    /\ UNCHANGED <<bmutex, store>>
    /\ StepFrame

\* WriteBatch, lines 356-357 and 390-396: the test of the retry loop; the
\* next attempt's db.Update begins its write transaction, one at a time in
\* the store, on a working copy; after the last attempt the error is
\* wrapped.
WriteBatchUpdate(t) ==
    /\ txn[t].pc = "update"
    /\ IF txn[t].c < numRetries
       THEN /\ \A u \in Threads \ {t} : txn[u].pc # "apply"
            /\ txn' = [txn EXCEPT ![t].tx = TxBegin(store),
                                  ![t].base = store,
                                  ![t].i = Len(txn[t].uniq),
                                  ![t].pc = "apply"]
       ELSE txn' = [txn EXCEPT ![t].ret = Outcome(txn[t].err),
                               ![t].pc = "unlock"]
    /\ UNCHANGED <<bmutex, store>>
    /\ StepFrame

\* WriteBatch, lines 359-383: one entry applied to the working copy
WriteBatchApply(t) ==
    /\ txn[t].pc = "apply"
    /\ txn[t].i >= 1
    /\ txn' = [txn EXCEPT
                  ![t].tx = ApplyWrite(txn[t].tx, txn[t].uniq[txn[t].i],
                                       NoFault),
                  ![t].i = txn[t].i - 1]
    /\ UNCHANGED <<bmutex, store>>
    /\ StepFrame

\* WriteBatch, lines 385-389: the body returns nil and db.Update commits,
\* installing the working copy at once, or fails and rolls back; the loop
\* breaks on success.  The read transactions that are open keep their
\* snapshot.
WriteBatchCommit(t, ok) ==
    /\ txn[t].pc = "apply"
    /\ txn[t].i = 0
    /\ IF ok
       THEN /\ store' = txn[t].tx.st
            /\ txn' = [u \in Threads |->
                          IF u = t
                          THEN [txn[t] EXCEPT !.err = ErrNone,
                                              !.ret = ErrNone,
                                              !.pc = "unlock"]
                          ELSE IF /\ txn[u].pc \in {"view", "scan"}
                                  /\ txn[u].after = txn[u].tx.st
                          THEN [txn[u] EXCEPT !.after = txn[t].tx.st]
                          ELSE txn[u]]
       ELSE /\ UNCHANGED store
            /\ txn' = [txn EXCEPT ![t].err = EIO,
                                  ![t].c = txn[t].c + 1,
                                  ![t].pc = "update"]
    /\ UNCHANGED bmutex
    /\ StepFrame

\* WriteBatch, line 331: the deferred kvsb.Unlock() runs as the call
\* returns; its locals are gone.
WriteBatchUnlock(t) ==
    /\ txn[t].pc = "unlock"
    /\ bmutex' = IF bmutex = t THEN "free" ELSE bmutex
    /\ txn' = [txn EXCEPT ![t] = [NoTxn EXCEPT !.op = "WriteBatch",
                                               !.ret = txn[t].ret]]
    /\ UNCHANGED store
    /\ StepFrame

\* The result of the read call o with arguments a in a read transaction on
\* the store st.
ReadView(st, o, a) ==
    CASE o = "Get" ->
           LET g == GetView(st, a.ns, a.key)
           IN  [err |-> g.err, fk |-> Nil, fv |-> g.v]
      [] o = "Range" ->
           LET r == RangeView(st, a.ns, a.key, a.count)
           IN  [err |-> r.err, fk |-> Nil, fv |-> r.v]
      [] o = "Filter" ->
           FilterView(st, a.ns, a.cond, a.key, a.max)

\* Get, lines 124-129, Filter, lines 154-159, Range, lines 204-209: the
\* readiness check, then db.View begins a read transaction on a snapshot of
\* the store; Filter's cursor is put on its first key.
ReadBegin(t, o, a) ==
    /\ txn[t].pc = "idle"
    /\ ~exited
    /\ txn' = [txn EXCEPT ![t] =
                  IF ~IsReady
                  THEN [NoTxn EXCEPT !.op = o, !.a = a,
                                     !.ret = ErrDBNotStarted]
                  ELSE [NoTxn EXCEPT
                           !.op = o, !.a = a,
                           !.pc = IF o = "Filter" THEN "scan" ELSE "view",
                           !.tx = TxBegin(store),
                           !.after = store,
                           !.fk = <<>>, !.fv = <<>>,
                           !.k = IF o # "Filter" THEN Nil
                                 ELSE IF Len(a.key) > 0
                                 THEN CursorSeek(store, a.ns, a.key)
                                 ELSE CursorFirst(store, a.ns)]]
    /\ UNCHANGED <<bmutex, store>>
    /\ StepFrame

\* Get, lines 129-149, and Range, lines 209-237: the body runs on the
\* snapshot and the call returns.
ReadEnd(t) ==
    /\ txn[t].pc = "view"
    /\ LET r == ReadView(txn[t].tx.st, txn[t].op, txn[t].a)
       IN  txn' = [txn EXCEPT ![t].ret = r.err, ![t].fk = r.fk,
                              ![t].fv = r.fv, ![t].pc = "idle"]
    /\ UNCHANGED <<bmutex, store>>
    /\ StepFrame

\* Filter's scan is over: the cursor ran off the bucket or passed maxKey.
ScanOver(c) ==
    \/ c.k = Nil
    \/ Len(c.a.max) > 0 /\ Compare(c.k, c.a.max) = 1

\* FilterStep that reads the key under the cursor, and moves the cursor, in
\* the store as it is now.
FilterStepLive(t) ==
    /\ txn[t].pc = "scan"
    /\ ~ScanOver(txn[t])
    /\ LET c == txn[t]
           g == BucketGet(store, c.a.ns, c.k)
           m == g # Nil /\ Cond(c.a.cond, c.k, g[1])
       IN  txn' = [txn EXCEPT
                      ![t].fk = IF m THEN Append(c.fk, c.k) ELSE c.fk,
                      ![t].fv = IF m THEN Append(c.fv, g[1]) ELSE c.fv,
                      ![t].k = CursorNext(store, c.a.ns, c.k)]
    /\ UNCHANGED <<bmutex, store>>
    /\ StepFrame

\* Filter, lines 178-190: one turn of the scan, on the snapshot
FilterStep(t) ==
    /\ txn[t].pc = "scan"
    /\ ~ScanOver(txn[t])
    /\ LET c == txn[t]
           v == BucketGet(c.tx.st, c.a.ns, c.k)[1]
           m == Cond(c.a.cond, c.k, v)
       IN  txn' = [txn EXCEPT
                      ![t].fk = IF m THEN Append(c.fk, c.k) ELSE c.fk,
                      ![t].fv = IF m THEN Append(c.fv, v) ELSE c.fv,
                      ![t].k = CursorNext(c.tx.st, c.a.ns, c.k)]
    /\ UNCHANGED <<bmutex, store>>
    /\ StepFrame

\* Filter, lines 160-163 and 191-199: the body returns and the call with it
FilterEnd(t) ==
    /\ txn[t].pc = "scan"
    /\ ScanOver(txn[t])
    /\ LET c == txn[t]
       IN  txn' = [txn EXCEPT
                      ![t].ret = IF ~HasBucket(c.tx.st, c.a.ns)
                                 THEN ErrBucketNotExist
                                 ELSE IF Len(c.fk) = 0 THEN ErrNotExist
                                 ELSE ErrNone,
                      ![t].fk = IF Len(c.fk) = 0 THEN Nil ELSE c.fk,
                      ![t].fv = IF Len(c.fk) = 0 THEN Nil ELSE c.fv,
                      ![t].pc = "idle"]
    /\ UNCHANGED <<bmutex, store>>
    /\ StepFrame

\* batch.KVStoreBatch: Put, Delete and Clear take the batch's mutex, so they
\* wait while a WriteBatch holds it.
BatchUnlocked == bmutex = "free"

\* ----------------------------------------------- write calls step by step

\* The error of db.Update on a handle that has been closed.
ErrDatabaseNotOpen == "bolt.ErrDatabaseNotOpen"

\* The steps of a call between the beginning and the end of its write
\* transaction.
InUpdate == {"body", "commit"}

\* No write transaction is open.
NoWriter == \A t \in Threads : txn[t].pc \notin InUpdate

\* Put, lines 98-100, and Insert, Remove, Purge alike (423-425, 515-517,
\* 558-560): if !b.IsReady() { return ErrDBNotStarted }, read with no lock
\* held.
WriteCheck(t, o, a) ==
    /\ txn[t].pc = "idle"
    /\ ~exited
    /\ txn' = [txn EXCEPT ![t] =
                  IF ~IsReady
                  THEN [NoTxn EXCEPT !.op = o, !.a = a,
                                     !.ret = ErrDBNotStarted]
                  ELSE [NoTxn EXCEPT !.op = o, !.a = a, !.pc = "loop"]]
    /\ UNCHANGED <<bmutex, store>>
    /\ StepFrame

\* WriteLoop whose db.Update begins without waiting for the write
\* transaction that is open.
WriteLoopNoWait(t) ==
    /\ txn[t].pc = "loop"
    /\ IF txn[t].c < numRetries
       THEN IF db = "open"
            THEN txn' = [txn EXCEPT ![t].tx = TxBegin(store),
                                    ![t].base = store,
                                    ![t].pc = "body"]
            ELSE txn' = [txn EXCEPT ![t].err = ErrDatabaseNotOpen,
                                    ![t].c = txn[t].c + 1]
       ELSE txn' = [txn EXCEPT ![t] =
                       [NoTxn EXCEPT !.op = txn[t].op,
                                     !.err = txn[t].err,
                                     !.ret = Outcome(txn[t].err)]]
    /\ UNCHANGED <<bmutex, store>>
    /\ StepFrame

\* Put, lines 102-103 and 113-119, and the other calls alike: the test of
\* the retry loop; the next attempt's b.db.Update waits for the write
\* transaction that is open, then fails on a closed handle or begins its
\* own on a working copy of the store; after the last attempt the error is
\* wrapped.  The handle is never nil here: readiness was seen on.
WriteLoop(t) ==
    /\ txn[t].pc = "loop"
    /\ IF txn[t].c < numRetries
       THEN /\ \A u \in Threads \ {t} : txn[u].pc \notin InUpdate
            /\ IF db = "open"
               THEN txn' = [txn EXCEPT ![t].tx = TxBegin(store),
                                       ![t].base = store,
                                       ![t].pc = "body"]
               ELSE txn' = [txn EXCEPT ![t].err = ErrDatabaseNotOpen,
                                       ![t].c = txn[t].c + 1]
       ELSE txn' = [txn EXCEPT ![t] =
                       [NoTxn EXCEPT !.op = txn[t].op,
                                     !.err = txn[t].err,
                                     !.ret = Outcome(txn[t].err)]]
    /\ UNCHANGED <<bmutex, store>>
    /\ StepFrame

\* Put, lines 103-109, Insert, 430-449, Remove, 522-541, Purge, 565-581:
\* the closure runs on the transaction's working copy, its seek and its
\* writes alike.
WriteBody(t) ==
    /\ txn[t].pc = "body"
    /\ txn' = [txn EXCEPT
                  ![t].tx = TxBody(txn[t].tx.st, txn[t].op, txn[t].a, NoFault),
                  ![t].pc = "commit"]
    /\ UNCHANGED <<bmutex, store>>
    /\ StepFrame

\* Put, lines 103-112, and the other calls alike: the closure's error rolls
\* the transaction back; otherwise db.Update commits, installing the
\* working copy at once, or fails and rolls back; the loop breaks on
\* success and the call returns nil, its locals gone.
WriteCommit(t, ok) ==
    /\ txn[t].pc = "commit"
    /\ IF txn[t].tx.err # ErrNone
       THEN /\ UNCHANGED store
            /\ txn' = [txn EXCEPT ![t].err = txn[t].tx.err,
                                  ![t].c = txn[t].c + 1,
                                  ![t].pc = "loop"]
       ELSE IF ok
       THEN /\ store' = txn[t].tx.st
            /\ txn' = [txn EXCEPT ![t] =
                          [NoTxn EXCEPT !.op = txn[t].op,
                                        !.ret = ErrNone]]
       ELSE /\ UNCHANGED store
            /\ txn' = [txn EXCEPT ![t].err = EIO,
                                  ![t].c = txn[t].c + 1,
                                  ![t].pc = "loop"]
    /\ UNCHANGED bmutex
    /\ StepFrame

\* ---------------------------------------------------------- specifications

\* NewBoltDB, lines 51-57: the engine is idle, its handle nil; the file is
\* new.
InitEngine ==
    /\ ready = FALSE
    /\ db = "nil"
    /\ store = EmptyStore
    /\ batch = <<>>
    /\ exited = FALSE
    /\ op = "NewBoltDB"
    /\ args = NoArgs
    /\ ret = ErrNone
    /\ outk = Nil
    /\ outv = Nil
    /\ flag = FALSE
    /\ trace = <<>>
    /\ pre = EmptyStore
    /\ preReady = FALSE
    /\ mutex = "free"
    /\ pc = [t \in Threads |-> "idle"]
    /\ tcall = [t \in Threads |-> NoCall]
    /\ bmutex = "free"
    /\ txn = [t \in Threads |-> NoTxn]

\* NumRetries is a positive configured count.
Init == InitEngine /\ numRetries \in 1..MaxRetries

\* NumRetries is any count a Config can hold, zero, the value of a Config
\* that does not set it, included.
InitAnyRetries == InitEngine /\ numRetries \in 0..MaxRetries

\* The store contract's write path and lifecycle: two namespaces, the
\* second with a single key.
KeysOf(ns) == IF ns = "ns1" THEN {<<1>>, <<2>>} ELSE {<<1>>}

Next ==
    \/ \E opened \in BOOLEAN : Start(opened)
    \/ \E closed \in BOOLEAN : Stop(closed)
    \/ \E ns \in Namespaces, v \in Values : \E k \in KeysOf(ns) : Put(ns, k, v)
    \/ \E ns \in Namespaces : \E k \in KeysOf(ns) : Get(ns, k)
    \/ \E ns \in Namespaces : \E k \in KeysOf(ns) \cup {Nil} : Delete(ns, k)
    \/ \E ns \in Namespaces : BucketExists(ns)

Spec == Init /\ [][Next]_vars

\* ------------------------------------------------------------ Put and Get

\* C3: after a successful Put(ns, k, v) on a started engine the namespace
\* exists and Get(ns, k) returns v, and every other key of every namespace
\* reads as it did before the call, so each key holds the value of the last
\* Put to it.
C3_PutThenGet ==
    (op = "Put" /\ ret = ErrNone) =>
        /\ HasBucket(store, args.ns)
        /\ GetView(store, args.ns, args.key) =
               [err |-> ErrNone, v |-> <<args.val>>]
        /\ \A ns \in AllNS : \A k \in Keys :
               <<ns, k>> # <<args.ns, args.key>> =>
                   BucketGet(store, ns, k) = BucketGet(pre, ns, k)
        /\ \A ns \in AllNS \ {args.ns} : store[ns] = pre[ns]

\* A Put that succeeded at its second attempt and replaced the other value
\* of its key, while the other namespace held an entry.
C3_Witness ==
    /\ op = "Put"
    /\ ret = ErrNone
    /\ Len(trace) = 2
    /\ BucketGet(pre, args.ns, args.key) \notin {Nil, <<args.val>>}
    /\ \E ns \in AllNS \ {args.ns} : pre[ns].kv # {}

\* C4 as stated: Get on a namespace that does not exist returns
\* BucketNotExist, Get of an unwritten key in an existing namespace returns
\* NotExist.
C4_GetAbsenceKinds ==
    (op = "Get" /\ preReady) =>
        /\ ~HasBucket(pre, args.ns) => ret = ErrBucketNotExist
        /\ (HasBucket(pre, args.ns) /\ BucketGet(pre, args.ns, args.key) = Nil)
               => ret = ErrNotExist

\* C4 amended: Get returns the kind NotExist, with no value, in both absence
\* cases, a missing namespace and a missing key of an existing namespace;
\* it returns a value and no error otherwise.
C4_GetAbsenceNotExist ==
    (op = "Get" /\ preReady) =>
        IF ~HasBucket(pre, args.ns) \/ BucketGet(pre, args.ns, args.key) = Nil
        THEN ret = ErrNotExist /\ outv = Nil
        ELSE ret = ErrNone /\ outv = BucketGet(pre, args.ns, args.key)

\* A Get on a namespace that was written and then deleted, while the other
\* namespace still holds an entry.
C4_Witness ==
    /\ op = "Get"
    /\ preReady
    /\ ~HasBucket(pre, args.ns)
    /\ ret = ErrNotExist
    /\ \E ns \in AllNS \ {args.ns} : pre[ns].kv # {}

\* ------------------------------------------------------------ fatal errors

WriteOps == {"Put", "Delete", "WriteBatch", "Insert", "Remove", "Purge"}

\* C6: an attempt that fails with the out-of-space condition is the last
\* attempt of its call and the process is terminated.
C6_FatalNeverRetried ==
    (op \in WriteOps /\ preReady) =>
        \A i \in 1..Len(trace) :
            trace[i] = ENOSPC => (i = Len(trace) /\ ret = Exited)

\* ------------------------------------------------------------------ Delete

\* C9: a successful Delete(ns, nil) leaves ns absent, a successful
\* Delete(ns, key) removes that entry of ns only; an absent namespace or key
\* makes no attempt fail and leaves the store as it was; all other
\* namespaces, and for a key all other keys of ns, are unchanged.
C9_DeleteFrame ==
    (op = "Delete" /\ preReady) =>
        /\ ret = ErrNone =>
               IF args.key = Nil
               THEN store = [pre EXCEPT ![args.ns] = NoBucket]
               ELSE store = [pre EXCEPT ![args.ns].kv =
                                {p \in @ : p[1] # args.key}]
        /\ \A i \in 1..Len(trace) : trace[i] \in {ErrNone, EIO, ENOSPC}
        /\ (ret = ErrNone /\ args.key \notin BKeys(pre, args.ns)
                /\ (args.key # Nil \/ ~HasBucket(pre, args.ns)))
               => store = pre

\* A Delete of a whole namespace that held an entry, while the other
\* namespace held one too.
C9_Witness ==
    /\ op = "Delete"
    /\ ret = ErrNone
    /\ args.key = Nil
    /\ pre[args.ns].kv # {}
    /\ \E ns \in AllNS \ {args.ns} : store[ns].kv # {}

\* ------------------------------------------------------------------ scans

\* Filter and Range over a namespace of three keys, beside a namespace that
\* is never written.
NextScan ==
    \/ \E opened \in BOOLEAN : Start(opened)
    \/ \E k \in Keys, v \in Values : Put("ns1", k, v)
    \/ \E k \in Keys \cup {Nil} : Delete("ns1", k)
    \/ \E c \in Conds, lo \in Keys \cup {Nil}, hi \in Keys \cup {Nil} :
          Filter("ns1", c, lo, hi)
    \/ \E c \in Conds : Filter("ns2", c, Nil, Nil)
    \/ \E k \in Keys \cup {Nil}, n \in 0..MaxCount : Range("ns1", k, n)
    \/ \E n \in 0..MaxCount : Range("ns2", Nil, n)

SpecScan == Init /\ [][NextScan]_vars

\* The keys of ns in st that lie within [lo, hi] (an absent bound being no
\* bound) and whose pair satisfies condition c.
Matches(st, ns, c, lo, hi) ==
    {k \in BKeys(st, ns) :
        /\ lo = Nil \/ Compare(lo, k) <= 0
        /\ hi = Nil \/ Compare(k, hi) <= 0
        /\ Cond(c, k, BucketGet(st, ns, k)[1])}

\* C10: on an existing namespace Filter returns exactly the matching pairs
\* within the bounds, each once, in ascending key order, the value of each
\* key at the key's position.
C10_FilterExact ==
    (op = "Filter" /\ preReady /\ HasBucket(pre, args.ns)) =>
        LET M == Matches(pre, args.ns, args.cond, args.key, args.max)
        IN  /\ Len(outk) = Cardinality(M)
            /\ Len(outv) = Len(outk)
            /\ {outk[i] : i \in 1..Len(outk)} = M
            /\ \A i \in 1..(Len(outk) - 1) : Compare(outk[i], outk[i + 1]) < 0
            /\ \A i \in 1..Len(outk) :
                   <<outv[i]>> = BucketGet(pre, args.ns, outk[i])

\* A Filter between two bounds that leaves out a stored key below the lower
\* bound and returns two pairs.
C10_Witness ==
    /\ op = "Filter"
    /\ ret = ErrNone
    /\ args.key # Nil
    /\ args.max # Nil
    /\ Len(outk) = 2
    /\ \E k \in BKeys(pre, args.ns) : Compare(k, args.key) < 0

\* C11: Filter on a namespace that does not exist returns BucketNotExist;
\* Filter on an existing namespace in which no pair within the bounds
\* satisfies the condition returns NotExist; both return no keys and no
\* values, and Filter returns success whenever some pair matches.
C11_FilterAbsence ==
    (op = "Filter" /\ preReady) =>
        LET M == Matches(pre, args.ns, args.cond, args.key, args.max)
        IN  /\ ~HasBucket(pre, args.ns) =>
                   (ret = ErrBucketNotExist /\ outk = Nil /\ outv = Nil)
            /\ (HasBucket(pre, args.ns) /\ M = {}) =>
                   (ret = ErrNotExist /\ outk = Nil /\ outv = Nil)
            /\ (HasBucket(pre, args.ns) /\ M # {}) => ret = ErrNone

\* A Filter on a namespace that exists and holds no entry, every entry
\* having been deleted by key.
C11_Witness ==
    /\ op = "Filter"
    /\ preReady
    /\ HasBucket(pre, args.ns)
    /\ pre[args.ns].kv = {}
    /\ ret = ErrNotExist

\* The keys of S in ascending order.
RECURSIVE Ascending(_)
Ascending(S) ==
    IF S = {} THEN <<>>
    ELSE <<MinKey(S)>> \o Ascending(S \ {MinKey(S)})

\* C12 as stated: Range(ns, startKey, count) returns success and the values
\* of the count entries from the smallest key >= startKey on whenever at
\* least count entries remain from there, count = 0 included, and returns
\* NotExist exactly when fewer remain.
C12_RangeExact ==
    (op = "Range" /\ preReady) =>
        LET from == Ascending({k \in BKeys(pre, args.ns) :
                                  Compare(k, args.key) >= 0})
        IN  IF Len(from) >= args.count
            THEN /\ ret = ErrNone
                 /\ Len(outv) = args.count
                 /\ \A i \in 1..args.count :
                        <<outv[i]>> = BucketGet(pre, args.ns, from[i])
            ELSE ret = ErrNotExist

\* ------------------------------------------------------------ batch commit

\* The key and value lists passed to batchPutForceFail: distinct keys, and
\* values of the same or another length.
ForceKeys == {<<>>, <<<<1>>>>, <<<<2>>>>, <<<<1>>, <<2>>>>, <<<<2>>, <<1>>>>}
ForceVals == UNION {[1..m -> Values] : m \in 0..2}

\* The operations queued in a batch: Puts of both values to the keys of the
\* first namespace and of one value to the second, Deletes of a key and of
\* nil.
BatchPuts ==
    {<<"ns1", k, v>> : k \in KeysOf("ns1"), v \in Values}
        \cup {<<"ns2", <<1>>, "v1">>}
BatchDeletes == {<<"ns1", <<1>>>>, <<"ns1", Nil>>, <<"ns2", <<1>>>>}

\* The batch and its commit, Get, and the forced-failure transaction, which
\* is called with no batch pending.
NextBatch ==
    \/ \E opened \in BOOLEAN : Start(opened)
    \/ \E w \in BatchPuts : BatchPut(w[1], w[2], w[3])
    \/ \E w \in BatchDeletes : BatchDelete(w[1], w[2])
    \/ BatchClear
    \/ WriteBatch
    \/ \E keys \in ForceKeys, vals \in ForceVals :
          batch = <<>> /\ BatchPutForceFail("ns1", keys, vals)
    \/ \E ns \in Namespaces : \E k \in KeysOf(ns) : Get(ns, k)

SpecBatch == Init /\ [][NextBatch]_vars

\* The last operation of a batch on the pair (ns, k): its index, 0 if none.
LastWrite(ents, ns, k) ==
    IF \E i \in 1..Len(ents) : ents[i].ns = ns /\ ents[i].key = k
    THEN CHOOSE i \in 1..Len(ents) :
             /\ ents[i].ns = ns /\ ents[i].key = k
             /\ \A j \in (i + 1)..Len(ents) :
                    ~(ents[j].ns = ns /\ ents[j].key = k)
    ELSE 0

\* The operation w of a committed batch is visible in st.
Visible(st, w) ==
    IF w.type = "Put" THEN BucketGet(st, w.ns, w.key) = <<w.val>>
    ELSE BucketGet(st, w.ns, w.key) = Nil

\* C1: a WriteBatch or a forced-failure transaction that does not return
\* success leaves every namespace and key as it was before the call; a
\* WriteBatch that returns success has made every surviving operation
\* visible.
C1_AllOrNothing ==
    /\ (op \in {"WriteBatch", "batchPutForceFail"} /\ ret # ErrNone)
           => store = pre
    /\ (op = "WriteBatch" /\ ret = ErrNone) =>
           \A k \in DOMAIN args.ents :
               LastWrite(args.ents, args.ents[k].ns, args.ents[k].key) = k
                   => Visible(store, args.ents[k])

\* A forced failure on the last of two writes, over a namespace that held
\* another value for the first key.
C1_Witness ==
    /\ op = "batchPutForceFail"
    /\ ret = ErrIO
    /\ trace = <<ErrIO>>
    /\ Len(args.keys) = 2
    /\ Len(args.vals) = 2
    /\ BucketGet(pre, args.ns, args.keys[1]) \notin {Nil, <<args.vals[1]>>}

\* C2: after a successful WriteBatch, every pair the batch wrote reflects the
\* last operation of the batch on it, the value of a Put or the absence of
\* the key after a Delete; and queuing or clearing operations of a batch
\* leaves the store as it was, so Get still returns the stored value.
C2_LastWriteWins ==
    /\ (op = "WriteBatch" /\ ret = ErrNone) =>
           \A ns \in AllNS : \A k \in Keys :
               LET i == LastWrite(args.ents, ns, k)
               IN  IF i = 0
                   THEN BucketGet(store, ns, k) = BucketGet(pre, ns, k)
                   ELSE IF args.ents[i].type = "Put"
                   THEN BucketGet(store, ns, k) = <<args.ents[i].val>>
                   ELSE BucketGet(store, ns, k) = Nil
    /\ op \in {"batch.Put", "batch.Delete", "batch.Clear"} => store = pre
    /\ (op = "Get" /\ preReady /\ ret = ErrNone) =>
           outv = BucketGet(store, args.ns, args.key)

\* A committed batch of two Puts of different values to one pair that held
\* a value before.
C2_Witness ==
    /\ op = "WriteBatch"
    /\ ret = ErrNone
    /\ Len(args.ents) = 2
    /\ args.ents[1].type = "Put"
    /\ args.ents[2].type = "Put"
    /\ args.ents[1].ns = args.ents[2].ns
    /\ args.ents[1].key = args.ents[2].key
    /\ args.ents[1].val # args.ents[2].val
    /\ BucketGet(pre, args.ents[1].ns, args.ents[1].key) # Nil

\* C13: a WriteBatch of a batch without entries leaves every namespace and
\* key as it was and fails in no attempt but by a fault of the commit, so it
\* returns success whenever its transaction commits; WriteBatch commits the
\* queue as it stands; after Clear the queue is empty and the store is as it
\* was.
C13_EmptyCommit ==
    /\ (op = "WriteBatch" /\ preReady /\ args.ents = <<>>) =>
           /\ store = pre
           /\ \A i \in 1..Len(trace) : trace[i] \in {ErrNone, EIO, ENOSPC}
           /\ trace[Len(trace)] = ErrNone => ret = ErrNone
    /\ (op = "WriteBatch" /\ preReady) => args.ents = batch
    /\ op = "batch.Clear" => (Len(batch) = 0 /\ store = pre)

\* A committed WriteBatch of an empty batch over a store that holds an
\* entry: the entry came from an earlier batch, which only Clear can have
\* emptied.
C13_Witness ==
    /\ op = "WriteBatch"
    /\ ret = ErrNone
    /\ args.ents = <<>>
    /\ \E ns \in AllNS : store[ns].kv # {}

\* The batches that can be queued.
BatchOps ==
    {[type |-> "Put", ns |-> w[1], key |-> w[2], val |-> w[3]] :
         w \in BatchPuts}
        \cup {[type |-> "Delete", ns |-> w[1], key |-> w[2], val |-> ""] :
                  w \in BatchDeletes}
Batches == UNION {[1..m -> BatchOps] : m \in 0..MaxBatch}

\* The last operation of a batch on each pair it writes.
NetOps(b) ==
    {b[i] : i \in {j \in DOMAIN b : LastWrite(b, b[j].ns, b[j].key) = j}}

\* C14: a successful WriteBatch leaves the store that a commit of any other
\* batch with the same last operation on every pair leaves, the same
\* namespaces existing.
C14_NetEffect ==
    (op = "WriteBatch" /\ ret = ErrNone) =>
        \A b \in Batches :
            NetOps(b) = NetOps(args.ents) =>
                Update(pre, WriteBatchTx(pre, b, NoFault), NoFault).st = store

\* A committed batch of a Delete and then a Put of another key of one
\* namespace that did not exist.
C14_Witness ==
    /\ op = "WriteBatch"
    /\ ret = ErrNone
    /\ Len(args.ents) = 2
    /\ args.ents[1].type = "Delete"
    /\ args.ents[2].type = "Put"
    /\ args.ents[1].ns = args.ents[2].ns
    /\ args.ents[1].key # args.ents[2].key
    /\ ~HasBucket(pre, args.ents[1].ns)

\* C15 as stated: after a successful WriteBatch whose last operation on a
\* namespace is a Delete with a nil key, the namespace and its entries no
\* longer exist, as after Delete(ns, nil).
C15_BatchDeleteNamespace ==
    (op = "WriteBatch" /\ ret = ErrNone) =>
        \A ns \in AllNS :
            LET on == {i \in DOMAIN args.ents : args.ents[i].ns = ns}
            IN  (on # {} /\ \A i \in on :
                               (\A j \in on : j <= i) =>
                                   (args.ents[i].type = "Delete"
                                        /\ args.ents[i].key = Nil))
                    => ~HasBucket(store, ns)

\* The store after the operations of a batch have been made one by one, in
\* the order of the batch, by the calls Put and Delete, each succeeding at
\* its first attempt.
RECURSIVE Sequential(_, _, _)
Sequential(st, ents, i) ==
    IF i > Len(ents) THEN st
    ELSE LET w == ents[i]
             body == IF w.type = "Put"
                     THEN PutTx(st, w.ns, w.key, w.val, NoFault)
                     ELSE DeleteTx(st, w.ns, w.key, NoFault)
         IN  Sequential(Update(st, body, NoFault).st, ents, i + 1)

\* The batch puts keys into the namespace and deletes each of them later.
PutsAllDeleted(ents, ns) ==
    /\ \E i \in 1..Len(ents) : ents[i].ns = ns /\ ents[i].type = "Put"
    /\ \A i \in 1..Len(ents) :
           (ents[i].ns = ns /\ ents[i].type = "Put") =>
               \E j \in (i + 1)..Len(ents) :
                   /\ ents[j].ns = ns
                   /\ ents[j].key = ents[i].key
                   /\ ents[j].type = "Delete"

\* C30 as stated: after a successful WriteBatch of Puts and Deletes with
\* keys, every namespace exists or not, and holds the keys and values, as
\* after the same operations made one by one in the order of the batch by
\* Put and Delete.
C30_RefinesSequential ==
    (/\ op = "WriteBatch"
     /\ ret = ErrNone
     /\ preReady
     /\ \A i \in 1..Len(args.ents) : args.ents[i].key # Nil)
        => store = Sequential(pre, args.ents, 1)

\* C30: after a successful WriteBatch of Puts and Deletes with keys, every
\* namespace holds the keys and values it holds after the same operations
\* made one by one by Put and Delete, and exists exactly when it exists
\* after them, but for a namespace that was missing and whose every Put in
\* the batch is followed by a Delete of the same key: the calls one by one
\* leave it existing and empty, WriteBatch leaves it missing.
C30_RefinesSequentialKeys ==
    (/\ op = "WriteBatch"
     /\ ret = ErrNone
     /\ preReady
     /\ \A i \in 1..Len(args.ents) : args.ents[i].key # Nil)
        => LET seq == Sequential(pre, args.ents, 1)
           IN  \A ns \in AllNS :
                   /\ store[ns].kv = seq[ns].kv
                   /\ IF ~HasBucket(pre, ns) /\ PutsAllDeleted(args.ents, ns)
                      THEN ~HasBucket(store, ns) /\ HasBucket(seq, ns)
                      ELSE HasBucket(store, ns) = HasBucket(seq, ns)

\* A committed batch that put a key into a missing namespace and then
\* deleted it, while the other namespace kept its entry.
C30_Witness ==
    /\ op = "WriteBatch"
    /\ ret = ErrNone
    /\ preReady
    /\ Len(args.ents) = 2
    /\ args.ents[1].type = "Put"
    /\ args.ents[2].type = "Delete"
    /\ args.ents[1].ns = args.ents[2].ns
    /\ args.ents[1].key = args.ents[2].key
    /\ args.ents[1].key # Nil
    /\ ~HasBucket(pre, args.ents[1].ns)
    /\ \E ns \in AllNS : store[ns].kv # {}

\* ------------------------------------------------------- every operation

\* The largest boundary key.
MaxUintKey == Uint64ToBytesBigEndian(UintMod - 1)

\* Every operation of the engine on one key of one namespace, one batch
\* entry and one index key.
NextAll ==
    \/ \E opened \in BOOLEAN : Start(opened)
    \/ \E closed \in BOOLEAN : Stop(closed)
    \/ Put("ns1", <<1>>, "v1")
    \/ Put("idx", MaxUintKey, "v1")
    \/ Get("ns1", <<1>>)
    \/ Delete("ns1", Nil)
    \/ Filter("ns1", "all", Nil, Nil)
    \/ Range("ns1", Nil, 1)
    \/ BucketExists("ns1")
    \/ BatchPut("ns1", <<1>>, "v2")
    \/ WriteBatch
    \/ Insert("idx", 2, "v2")
    \/ Remove("idx", 2)
    \/ Purge("idx", 2)
    \/ SeekNext("idx", 2)
    \/ SeekPrev("idx", 2)

SpecAll == Init /\ [][NextAll]_vars

\* C5: a write call on a ready engine makes at least one and at most
\* NumRetries attempts and none after the first that commits; a call that
\* does not succeed leaves the store as it was, a call that succeeds leaves
\* what one clean transaction on the store before the call leaves; and when
\* every attempt fails with an error other than out-of-space the call
\* returns the kind IO.
C5_BoundedRetry ==
    (op \in WriteOps /\ preReady) =>
        /\ Len(trace) >= 1
        /\ Len(trace) <= numRetries
        /\ \A i \in 1..(Len(trace) - 1) : trace[i] # ErrNone
        /\ ret # ErrNone => store = pre
        /\ ret = ErrNone =>
               store = Update(pre, TxBody(pre, op, args, NoFault), NoFault).st
        /\ (\A i \in 1..Len(trace) : trace[i] \notin {ErrNone, ENOSPC})
               => (ret = ErrIO /\ store = pre /\ Len(trace) = numRetries)

\* An Insert of two writes whose first attempt failed after the first write
\* and whose second attempt committed.
C5_Witness ==
    /\ op = "Insert"
    /\ trace = <<EIO, ErrNone>>
    /\ ret = ErrNone
    /\ Cardinality(store[args.ns].kv) = Cardinality(pre[args.ns].kv) + 1

\* The calls that require a started engine.
DataOps ==
    {"Put", "Get", "Delete", "Filter", "Range", "WriteBatch", "Insert",
     "SeekNext", "SeekPrev", "Remove", "Purge"}

\* C7: on an idle engine every data operation returns NotReady with no
\* transaction attempt, no result and no change of the store, and
\* BucketExists returns false and no error.
C7_IdleNotReady ==
    /\ (op \in DataOps /\ ~preReady) =>
           /\ ret = ErrDBNotStarted
           /\ trace = <<>>
           /\ store = pre
           /\ outk = Nil
           /\ outv = Nil
           /\ ~exited
    /\ (op = "BucketExists" /\ ~preReady) =>
           /\ ret = ErrNone
           /\ flag = FALSE
           /\ trace = <<>>
           /\ store = pre

\* A Purge on a stopped engine whose index holds a boundary.
C7_Witness ==
    /\ op = "Purge"
    /\ ~preReady
    /\ db = "closed"
    /\ store[args.ns].kv # {}

\* ------------------------------------------------------------- range index

\* The range index "idx" of an engine configured with a single attempt per
\* write: its bucket is created by a Put of the largest boundary, and
\* boundaries are inserted and removed over the whole domain.
InitIndex == Init /\ numRetries = 1

NextIndex ==
    \/ Start(TRUE)
    \/ Put("idx", MaxUintKey, "v1")
    \/ \E key \in Uints, v \in IdxValues : Insert("idx", key, v)
    \/ \E key \in Uints : Remove("idx", key)

SpecIndex == InitIndex /\ [][NextIndex]_vars

\* Purge over an index whose boundaries are written by Put.
NextPurge ==
    \/ Start(TRUE)
    \/ \E k \in IdxKeys : Put("idx", k, "v1")
    \/ \E key \in Uints : Purge("idx", key)

SpecPurge == InitIndex /\ [][NextPurge]_vars

\* The boundary of domain point x.
Boundary(x) == Uint64ToBytesBigEndian(x)

\* C16: a successful Insert(name, key, value) that finds a boundary k at or
\* after the anchor key-1, holding v: when k is not the anchor, the index
\* gains the boundary (anchor -> v) and k holds value; when k is the anchor,
\* the next boundary, if any, holds value and no boundary is added; nothing
\* else changes.  SeekNext then yields value for every point from key up to
\* the boundary that received it and what it yielded before for every
\* other point.
C16_InsertSplit ==
    (op = "Insert" /\ ret = ErrNone) =>
        LET ak == Boundary(Anchor(args.key))
            k  == CursorSeek(pre, args.ns, ak)
            v  == ValueAt(pre, args.ns, k)
            up == IF k = ak THEN CursorNext(pre, args.ns, ak) ELSE k
        IN  k # Nil =>
                /\ store[args.ns].ex
                /\ store[args.ns].kv =
                       IF k # ak
                       THEN {p \in pre[args.ns].kv : p[1] # k}
                                \cup {<<ak, v>>, <<k, args.val>>}
                       ELSE IF up # Nil
                       THEN {p \in pre[args.ns].kv : p[1] # up}
                                \cup {<<up, args.val>>}
                       ELSE pre[args.ns].kv
                /\ \A ns \in AllNS \ {args.ns} : store[ns] = pre[ns]
                /\ \A x \in Uints :
                       SeekNextView(store, args.ns, x).v =
                           IF /\ up # Nil
                              /\ x >= args.key
                              /\ Compare(Boundary(x), up) <= 0
                           THEN <<args.val>>
                           ELSE SeekNextView(pre, args.ns, x).v

\* An Insert that split a run below which another boundary stood: the
\* index gained the anchor, which took the value the upper boundary held,
\* another value than the one inserted.
C16_Witness ==
    /\ op = "Insert"
    /\ ret = ErrNone
    /\ Cardinality(pre[args.ns].kv) >= 2
    /\ Cardinality(store[args.ns].kv) = Cardinality(pre[args.ns].kv) + 1
    /\ BucketGet(store, args.ns, Boundary(Anchor(args.key)))
           \notin {<<args.val>>, <<"">>}
    /\ \E p \in pre[args.ns].kv :
           Compare(p[1], Boundary(Anchor(args.key))) < 0

\* C17: an Insert(name, key, value) that finds no boundary at or after the
\* anchor key-1 fails in no attempt but by a fault; when it returns success
\* the only change is the new boundary (anchor -> empty value), so no
\* SeekNext or SeekPrev yields value unless a boundary held it before.
C17_InsertPastEnd ==
    (op = "Insert" /\ preReady /\ HasBucket(pre, args.ns)
         /\ CursorSeek(pre, args.ns, Boundary(Anchor(args.key))) = Nil) =>
        /\ \A i \in 1..Len(trace) : trace[i] \in {ErrNone, EIO, ENOSPC}
        /\ ret # ErrNone => store = pre
        /\ ret = ErrNone =>
               /\ store = BucketPut(pre, args.ns, Boundary(Anchor(args.key)), "")
               /\ \A x \in Uints :
                      (\/ SeekNextView(store, args.ns, x).v = <<args.val>>
                       \/ SeekPrevView(store, args.ns, x).v = <<args.val>>)
                          => \E p \in pre[args.ns].kv : p[2] = args.val

\* An Insert past the last boundary of an index that holds a boundary.
C17_Witness ==
    /\ op = "Insert"
    /\ ret = ErrNone
    /\ pre[args.ns].kv # {}
    /\ CursorSeek(pre, args.ns, Boundary(Anchor(args.key))) = Nil
    /\ BucketGet(store, args.ns, Boundary(Anchor(args.key))) = <<"">>
    /\ \A p \in store[args.ns].kv : p[2] # args.val

\* C18 as stated: a successful Remove(name, key) leaves the index as it was
\* when no boundary stands at the anchor key-1; otherwise it deletes the
\* anchor and writes its value v onto the next boundary, if any, all other
\* boundaries keeping key and value, and every point x <= anchor that
\* SeekNext mapped to v before is still mapped to v.
C18_RemoveCarry ==
    (op = "Remove" /\ ret = ErrNone) =>
        LET ak == Boundary(Anchor(args.key))
            v  == ValueAt(pre, args.ns, ak)
            k2 == CursorNext(pre, args.ns, ak)
        IN  IF ak \notin BKeys(pre, args.ns) THEN store = pre
            ELSE /\ store[args.ns].kv =
                        IF k2 = Nil
                        THEN {p \in pre[args.ns].kv : p[1] # ak}
                        ELSE {p \in pre[args.ns].kv : p[1] \notin {ak, k2}}
                                 \cup {<<k2, v>>}
                 /\ \A x \in Uints :
                        (/\ Compare(Boundary(x), ak) <= 0
                         /\ SeekNextView(pre, args.ns, x).v = <<v>>)
                            => SeekNextView(store, args.ns, x).v = <<v>>

\* C19 as stated: a successful Insert(name, key, value) followed at once by
\* a successful Remove(name, key) leaves the index as it was before the
\* Insert.
C19_RoundTrip ==
    [][(/\ op = "Insert" /\ ret = ErrNone
        /\ op' = "Remove" /\ ret' = ErrNone
        /\ args'.ns = args.ns /\ args'.key = args.key)
           => store' = pre]_vars

\* C19 amended: a successful Insert(name, key, value) that found no boundary
\* at the anchor key-1, followed at once by a successful Remove(name, key),
\* leaves the index as it was before the Insert.
C19_RoundTripNewAnchor ==
    [][(/\ op = "Insert" /\ ret = ErrNone
        /\ Boundary(Anchor(args.key)) \notin BKeys(pre, args.ns)
        /\ op' = "Remove" /\ ret' = ErrNone
        /\ args'.ns = args.ns /\ args'.key = args.key)
           => store' = pre]_vars

\* A Remove that undid a split: the index before it is what an Insert of
\* the same key leaves of the index after it, the anchor being new and
\* the value inserted another than the one of the run.
C19_Witness ==
    /\ op = "Remove"
    /\ ret = ErrNone
    /\ store # pre
    /\ store[args.ns].kv # {}
    /\ Boundary(Anchor(args.key)) \notin BKeys(store, args.ns)
    /\ \E v \in IdxValues :
           /\ pre = Update(store, InsertTx(store, args.ns, args.key, v, NoFault),
                           NoFault).st
           /\ \E p \in pre[args.ns].kv : p[2] = v
           /\ \A p \in store[args.ns].kv : p[2] # v

\* C20: after a successful Purge(name, key), nk being the smallest boundary
\* at or after key: no boundary below nk remains, none at all when nk does
\* not exist; nk holds the not-exist marker; every boundary above nk keeps
\* its key and value; the other namespaces are as they were.
C20_Purge ==
    (op = "Purge" /\ ret = ErrNone) =>
        LET nk == CursorSeek(pre, args.ns, Boundary(args.key))
        IN  /\ store[args.ns].ex
            /\ store[args.ns].kv =
                   IF nk = Nil THEN {}
                   ELSE {p \in pre[args.ns].kv : Compare(p[1], nk) > 0}
                            \cup {<<nk, NotExist>>}
            /\ \A ns \in AllNS \ {args.ns} : store[ns] = pre[ns]

\* A Purge that deleted two boundaries below nk, marked nk, which held a
\* value, and kept a boundary above it.
C20_Witness ==
    /\ op = "Purge"
    /\ ret = ErrNone
    /\ LET nk == CursorSeek(pre, args.ns, Boundary(args.key))
       IN  /\ nk # Nil
           /\ BucketGet(pre, args.ns, nk) = <<"v1">>
           /\ Cardinality({p \in pre[args.ns].kv : Compare(p[1], nk) < 0}) = 2
           /\ \E p \in store[args.ns].kv : Compare(p[1], nk) > 0

\* C34: for key = 0 the anchor is the largest word, key-1 wrapping around.
\* Insert(name, 0, value) and Remove(name, 0) on an existing index fail in
\* no attempt but by a fault and change nothing when they fail.  A
\* successful Insert leaves the index as it was when a boundary stands at
\* the largest word, nothing following it to take the value, and adds that
\* boundary with an empty value otherwise; a successful Remove deletes the
\* boundary at the largest word when it is there, carrying its value
\* nowhere, and changes nothing otherwise.
C34_KeyZero ==
    (op \in {"Insert", "Remove"} /\ args.key = 0 /\ preReady
         /\ HasBucket(pre, args.ns)) =>
        /\ \A i \in 1..Len(trace) : trace[i] \in {ErrNone, EIO, ENOSPC}
        /\ ret # ErrNone => store = pre
        /\ ret = ErrNone =>
               store = IF BucketGet(pre, args.ns, MaxUintKey) # Nil
                       THEN IF op = "Insert" THEN pre
                            ELSE BucketDelete(pre, args.ns, MaxUintKey)
                       ELSE IF op = "Insert"
                            THEN BucketPut(pre, args.ns, MaxUintKey, "")
                            ELSE pre

\* A Remove of key 0 has deleted the boundary at the largest word of an
\* index that holds another boundary, whose value is what it was.
C34_Witness ==
    /\ op = "Remove"
    /\ args.key = 0
    /\ ret = ErrNone
    /\ BucketGet(pre, args.ns, MaxUintKey) \notin {Nil, <<"">>}
    /\ BucketGet(store, args.ns, MaxUintKey) = Nil
    /\ store[args.ns].kv # {}
    /\ store[args.ns].kv \subseteq pre[args.ns].kv

\* ------------------------------------------------------- index lookups

\* The range index read back: the bucket is created by a Put of the largest
\* boundary and emptied by its Delete; boundaries are inserted at two
\* points, removed and purged at one, and looked up over the whole domain.
NextSeek ==
    \/ Start(TRUE)
    \/ Put("idx", MaxUintKey, "v1")
    \/ Delete("idx", MaxUintKey)
    \/ \E key \in 1..2, v \in IdxValues : Insert("idx", key, v)
    \/ Remove("idx", 2)
    \/ Purge("idx", 2)
    \/ \E x \in Uints : SeekNext("idx", x)
    \/ \E x \in Uints : SeekPrev("idx", x)

SpecSeek == InitIndex /\ [][NextSeek]_vars

\* The index holds the boundaries that Insert wrote for a point below key
\* and for key, and a boundary at or after key.
InsertedBelowAndAt(st, name, key) ==
    /\ HasBucket(st, name)
    /\ Boundary(Anchor(key)) \in BKeys(st, name)
    /\ \E k1 \in 1..(key - 1) : Boundary(Anchor(k1)) \in BKeys(st, name)
    /\ CursorSeek(st, name, Boundary(key)) # Nil

\* C21: after the boundaries of two points have been inserted and the index
\* purged at the higher one, key, the boundary of the lower point is gone,
\* the boundary at or after key holds the not-exist marker, and a SeekNext
\* or SeekPrev that follows at any point below key succeeds with the
\* marker.
C21_PurgeSurfacesMarker ==
    [][(/\ op = "Purge"
        /\ ret = ErrNone
        /\ InsertedBelowAndAt(pre, args.ns, args.key))
         => /\ \A k1 \in 1..args.key :
                   Boundary(Anchor(k1)) \notin BKeys(store, args.ns)
            /\ BucketGet(store, args.ns,
                         CursorSeek(pre, args.ns, Boundary(args.key)))
                   = <<NotExist>>
            /\ (/\ op' \in {"SeekNext", "SeekPrev"}
                /\ args'.ns = args.ns
                /\ args'.key < args.key)
                 => (ret' = ErrNone /\ outv' = <<NotExist>>)]_vars

\* The index exists and holds no boundary.
EmptyIndex(st, name) == HasBucket(st, name) /\ BKeys(st, name) = {}

\* The lookup that follows is a SeekPrev above key or a SeekNext below it.
SeekAround(name, key) ==
    /\ args'.ns = name
    /\ \/ op' = "SeekPrev" /\ args'.key > key
       \/ op' = "SeekNext" /\ args'.key < key

\* C22: after a successful Insert(name, key, value) into an index with no
\* boundaries, a SeekPrev above key and a SeekNext below key return value;
\* after the Remove(name, key) that follows such an Insert, both return an
\* empty value.
C22_InsertSeekRemove ==
    [][/\ (/\ op = "Insert"
            /\ ret = ErrNone
            /\ EmptyIndex(pre, args.ns)
            /\ SeekAround(args.ns, args.key))
             => (ret' = ErrNone /\ outv' = <<args.val>>)
       /\ (/\ op = "Remove"
            /\ ret = ErrNone
            /\ HasBucket(pre, args.ns)
            /\ \E v \in IdxValues :
                   LET e == [pre EXCEPT ![args.ns].kv = {}]
                   IN  pre = Update(e, InsertTx(e, args.ns, args.key, v,
                                                NoFault), NoFault).st
            /\ SeekAround(args.ns, args.key))
             => (ret' = ErrNone /\ outv' = <<"">>)]_vars

\* The boundaries of the index at or after point x, and those before it.
AtOrAfter(st, name, x) ==
    {p \in st[name].kv : Compare(p[1], Boundary(x)) >= 0}

Before(st, name, x) ==
    {p \in st[name].kv : Compare(p[1], Boundary(x)) < 0}

\* C23: SeekNext(name, key) on an existing index succeeds with the value of
\* the smallest boundary at or after key, the boundary at key itself when
\* there is one, and with an empty value when there is no such boundary;
\* the store is as it was.
C23_SeekNext ==
    (op = "SeekNext" /\ preReady /\ HasBucket(pre, args.ns)) =>
        /\ ret = ErrNone
        /\ store = pre
        /\ LET S == AtOrAfter(pre, args.ns, args.key)
           IN  IF S = {} THEN outv = <<"">>
               ELSE \E p \in S :
                        /\ \A q \in S : Compare(p[1], q[1]) <= 0
                        /\ outv = <<p[2]>>

\* A SeekNext at a point that has a boundary, with a boundary before it and
\* one after it holding other values.
C23_Witness ==
    /\ op = "SeekNext"
    /\ ret = ErrNone
    /\ outv = <<"v1">>
    /\ Boundary(args.key) \in BKeys(store, args.ns)
    /\ \E p \in Before(store, args.ns, args.key) : p[2] # "v1"
    /\ \E p \in AtOrAfter(store, args.ns, args.key) :
           p[1] # Boundary(args.key) /\ p[2] # "v1"

C27_SeekPrevAtKey ==
    (op = "SeekPrev" /\ preReady /\ HasBucket(pre, args.ns)) =>
        /\ ret = ErrNone
        /\ IF Boundary(args.key) \in BKeys(pre, args.ns)
           THEN outv = BucketGet(pre, args.ns, Boundary(args.key))
           ELSE LET S == Before(pre, args.ns, args.key)
                IN  IF S = {} THEN outv = <<"">>
                    ELSE \E p \in S :
                             /\ \A q \in S : Compare(p[1], q[1]) >= 0
                             /\ outv = <<p[2]>>

\* ----------------------------------------------- index without its bucket

\* The operations of the range index.
IndexOps == {"Insert", "Remove", "Purge", "SeekNext", "SeekPrev"}

\* C28: a range index operation on a ready engine whose namespace does not
\* exist returns ErrBucketNotExist after no more than one transaction
\* attempt and leaves the store as it was, the namespace still missing.
C28_IndexBucketNotExist ==
    (op \in IndexOps /\ preReady /\ ~HasBucket(pre, args.ns)) =>
        /\ ret = ErrBucketNotExist
        /\ Len(trace) <= 1
        /\ store = pre

\* ------------------------------------------------- any number of retries

\* Every operation of the engine, under any configured NumRetries.
SpecAnyRetries == InitAnyRetries /\ [][NextAll]_vars

\* C29: under every NumRetries, zero included, a write call on a ready
\* engine that returns no error has made a transaction attempt, its last
\* attempt committed, and the store is the store before the call with the
\* call's effect applied.
C29_SuccessCommitted ==
    (op \in WriteOps /\ preReady /\ ret = ErrNone) =>
        /\ Len(trace) >= 1
        /\ trace[Len(trace)] = ErrNone
        /\ store = Update(pre, TxBody(pre, op, args, NoFault), NoFault).st

\* ------------------------------------------------------ concurrent calls

\* The keys and the conditions of the concurrent readers.
ReadCalls ==
    {<<"Get", [NoArgs EXCEPT !.ns = "ns1", !.key = <<1>>]>>,
     <<"Range", [NoArgs EXCEPT !.ns = "ns1", !.key = <<1>>, !.count = 2]>>,
     <<"Filter", [NoArgs EXCEPT !.ns = "ns1", !.cond = "all"]>>}

\* The thread that commits the batch and the thread that reads the store.
Committer == "t1"
Reader == "t2"

\* A producer fills and clears the batch while one thread commits it and
\* the other reads the store, every call in steps of its own; a single
\* attempt per write.
NextConc ==
    \/ Start(TRUE)
    \/ BatchUnlocked /\ BatchPut("ns1", <<1>>, "v1")
    \/ BatchUnlocked /\ BatchPut("ns1", <<2>>, "v2")
    \/ BatchUnlocked /\ BatchDelete("ns1", <<1>>)
    \/ BatchUnlocked /\ BatchClear
    \/ WriteBatchLock(Committer)
    \/ WriteBatchEntry(Committer)
    \/ WriteBatchUpdate(Committer)
    \/ WriteBatchApply(Committer)
    \/ \E ok \in BOOLEAN : WriteBatchCommit(Committer, ok)
    \/ WriteBatchUnlock(Committer)
    \/ \E r \in ReadCalls : ReadBegin(Reader, r[1], r[2])
    \/ ReadEnd(Reader)
    \/ FilterStep(Reader)
    \/ FilterEnd(Reader)

SpecConc == InitIndex /\ [][NextConc]_vars

\* What the read call of thread t returned.
Returned(t) == [err |-> txn[t].ret, fk |-> txn[t].fk, fv |-> txn[t].fv]

\* Thread t has returned from a read call made on a ready engine.
HasRead(t) ==
    /\ txn[t].pc = "idle"
    /\ txn[t].op \in {"Get", "Filter", "Range"}
    /\ txn[t].ret # ErrDBNotStarted

\* C25: a Get, Filter or Range that ran while batches were being committed
\* returns what it would return on the store as it was when its read
\* transaction began or on the store as the first batch committed since
\* then left it: all of that batch's operations on the keys it reads are
\* visible to it, or none.
C25_SnapshotIsolation ==
    \A t \in Threads :
        HasRead(t) =>
            \E s \in {txn[t].tx.st, txn[t].after} :
                Returned(t) = ReadView(s, txn[t].op, txn[t].a)

\* A Filter over two keys returned while a batch that deleted the one and
\* wrote the other was committed during its scan.
C25_Witness ==
    \E t \in Threads :
        /\ HasRead(t)
        /\ txn[t].op = "Filter"
        /\ txn[t].ret = ErrNone
        /\ BucketGet(txn[t].tx.st, "ns1", <<1>>) # Nil
        /\ BucketGet(txn[t].after, "ns1", <<1>>) = Nil
        /\ BucketGet(txn[t].tx.st, "ns1", <<2>>) = Nil
        /\ BucketGet(txn[t].after, "ns1", <<2>>) # Nil
        /\ store = txn[t].after

\* The steps of WriteBatch between kvsb.Lock() and the deferred Unlock.
InWriteBatch == {"read", "update", "apply", "unlock"}

\* C26: from its first read of an entry until it returns, a WriteBatch holds
\* the batch's lock and the batch is what it was when the lock was taken;
\* no entry fails to be read; the entries it applies are the coalesced
\* content the batch had then, and the store a successful commit leaves is
\* the store the transaction began on with exactly those entries applied.
C26_BatchLocked ==
    \A t \in Threads :
        LET c == txn[t]
        IN  (c.pc \in InWriteBatch) =>
                /\ bmutex = t
                /\ batch = c.atLock
                /\ c.ret # ErrEntry
                /\ c.pc # "read" => c.uniq = UniqEntries(c.atLock)
                /\ (c.pc = "unlock" /\ c.ret = ErrNone) =>
                       /\ c.tx.st = WriteBatchTx(c.base, c.atLock, NoFault).st
                       /\ store = c.tx.st

\* A WriteBatch about to return after committing a batch of two entries on
\* the same key, the batch still full and locked.
C26_Witness ==
    \E t \in Threads :
        /\ txn[t].pc = "unlock"
        /\ txn[t].ret = ErrNone
        /\ Len(txn[t].atLock) = 2
        /\ Len(txn[t].uniq) = 1
        /\ store # txn[t].base
        /\ batch # <<>>
        /\ bmutex = t

\* ------------------------------------------- concurrent index mutations

\* The index is created with its last boundary; then two threads mutate
\* it, every call in steps of its own, a single attempt per call; a commit
\* succeeds or fails.
NextLin ==
    \/ ~IsReady /\ Start(TRUE)
    \/ NoWriter /\ ~HasBucket(store, "idx") /\ Put("idx", MaxUintKey, "v1")
    \/ \E t \in Threads, key \in 1..2, v \in IdxValues :
          WriteCheck(t, "Insert",
                     [NoArgs EXCEPT !.ns = "idx", !.key = key, !.val = v])
    \/ \E t \in Threads :
          WriteCheck(t, "Remove", [NoArgs EXCEPT !.ns = "idx", !.key = 2])
    \/ \E t \in Threads :
          WriteCheck(t, "Purge", [NoArgs EXCEPT !.ns = "idx", !.key = 2])
    \/ \E t \in Threads : WriteLoop(t)
    \/ \E t \in Threads : WriteBody(t)
    \/ \E t \in Threads, ok \in BOOLEAN : WriteCommit(t, ok)

SpecLin == InitIndex /\ [][NextLin]_vars

\* Thread t's call commits in this step.
Commits(t) ==
    /\ txn[t].pc = "commit"
    /\ txn'[t].pc = "idle"
    /\ txn'[t].ret = ErrNone

\* C31: concurrent Insert, Remove and Purge calls are linearizable in the
\* order of their commits: while a call's transaction is open the store is
\* the one its seek ran on; the store changes only when a call commits (or
\* when the index is created, no transaction being open), and the commit leaves
\* the store that the whole call, seek and writes, produces when executed
\* alone on the store as it is at that moment.
C31_Linearizable ==
    [][/\ \A t \in Threads :
             txn[t].pc \in InUpdate => txn[t].base = store
       /\ store' # store => (NoWriter \/ \E t \in Threads : Commits(t))
       /\ \A t \in Threads :
             Commits(t) =>
                 LET c == txn[t]
                 IN  store' = Update(store,
                                     TxBody(store, c.op, c.a, NoFault),
                                     NoFault).st]_vars

\* An Insert of one thread has committed, its anchor now a boundary, and
\* the Remove of the other, whose transaction began on the store that
\* commit left, is about to commit the removal of that boundary.
C31_Witness ==
    \E t, u \in Threads :
        /\ t # u
        /\ txn[t].pc = "idle" /\ txn[t].op = "Insert" /\ txn[t].ret = ErrNone
        /\ txn[u].pc = "commit" /\ txn[u].op = "Remove"
        /\ txn[u].tx.err = ErrNone
        /\ txn[u].tx.st # txn[u].base
        /\ store = txn[u].base
        /\ BucketGet(store, "idx", Boundary(1)) # Nil
        /\ BucketGet(txn[u].tx.st, "idx", Boundary(1)) = Nil

\* ------------------------------------------------- Put while Stop runs

\* The thread that starts and stops the engine and the thread that writes.
Owner == "t1"
Writer == "t2"

\* One thread starts and stops the engine, statement by statement, while
\* the other calls Put, statement by statement; b.db.Close() waits for the
\* write transaction that is open.
NextStop ==
    \/ Lock(Owner, "Start")
    \/ Lock(Owner, "Stop")
    \/ StartCheck(Owner)
    \/ \E opened \in BOOLEAN : StartOpen(Owner, opened)
    \/ StartAssign(Owner)
    \/ StartTurnOn(Owner)
    \/ StopCheck(Owner)
    \/ StopTurnOff(Owner)
    \/ \E closed \in BOOLEAN : NoWriter /\ StopClose(Owner, closed)
    \/ Unlock(Owner)
    \/ \E k \in {<<1>>, <<2>>} :
          WriteCheck(Writer, "Put",
                     [NoArgs EXCEPT !.ns = "ns1", !.key = k, !.val = "v1"])
    \/ WriteLoop(Writer)
    \/ WriteBody(Writer)
    \/ \E ok \in BOOLEAN : WriteCommit(Writer, ok)

SpecStop == Init /\ [][NextStop]_vars

\* C32: a Put that runs while Stop runs never calls db.Update on the closed
\* handle, and when it has returned it has either committed (nil), failed
\* its readiness check (ErrDBNotStarted) or, with ErrIO, seen its last
\* attempt fail in the store: a stopped engine is not reported as an IO
\* error.
C32_PutOrNotReady ==
    \A t \in Threads :
        txn[t].op = "Put" =>
            /\ txn[t].err # ErrDatabaseNotOpen
            /\ (txn[t].pc = "idle" /\ txn[t].ret = ErrIO) => txn[t].err = EIO

\* --------------------------------------------------------------- lifecycle

\* Start and Stop called concurrently by the threads, step by step.
NextLife ==
    \E t \in Threads :
        \/ Lock(t, "Start")
        \/ Lock(t, "Stop")
        \/ StartCheck(t)
        \/ \E opened \in BOOLEAN : StartOpen(t, opened)
        \/ StartAssign(t)
        \/ StartTurnOn(t)
        \/ StopCheck(t)
        \/ StopTurnOff(t)
        \/ \E closed \in BOOLEAN : StopClose(t, closed)
        \/ Unlock(t)

SpecLife == Init /\ [][NextLife]_vars

\* C8: at most one thread is inside Start or Stop; a Start that finds the
\* engine ready returns success and has opened nothing, the engine still
\* ready on its open handle; a Stop that finds it idle returns success and
\* has closed nothing; a Start whose open fails returns ErrIO and leaves the
\* engine idle; a Start that opens leaves it ready on an open handle and a
\* Stop that closes leaves it idle on a closed handle.
C8_Lifecycle ==
    /\ Cardinality({t \in Threads : pc[t] # "idle"}) <= 1
    /\ \A t \in Threads : pc[t] # "idle" => mutex = t
    /\ \A t \in Threads :
           (pc[t] = "unlock" /\ tcall[t].op = "Start") =>
               /\ tcall[t].sawReady =>
                      /\ tcall[t].ret = ErrNone
                      /\ ~tcall[t].opened
                      /\ ready /\ db = "open"
               /\ tcall[t].openFailed =>
                      /\ tcall[t].ret = ErrIO
                      /\ ~ready /\ db # "open"
               /\ (~tcall[t].sawReady /\ ~tcall[t].openFailed) =>
                      /\ tcall[t].ret = ErrNone
                      /\ ready /\ db = "open"
    /\ \A t \in Threads :
           (pc[t] = "unlock" /\ tcall[t].op = "Stop") =>
               /\ ~tcall[t].sawReady =>
                      /\ tcall[t].ret = ErrNone
                      /\ ~tcall[t].closed
                      /\ ~ready /\ db # "open"
               /\ tcall[t].sawReady =>
                      /\ tcall[t].closed
                      /\ ~ready /\ db = "closed"

\* A Start that found the engine ready, started by the other thread after a
\* Stop, returns while the other thread waits.
C8_Witness ==
    \E t \in Threads :
        /\ pc[t] = "unlock"
        /\ tcall[t].op = "Start"
        /\ tcall[t].sawReady
        /\ \E u \in Threads \ {t} : tcall[u].op = "Start" /\ tcall[u].opened

\* C33: whenever the engine reports Ready its handle is open, never nil and
\* never closed: a Start about to turn the readiness on has assigned the
\* opened handle, and a Stop about to close the handle has turned the
\* readiness off.
C33_ReadyIsOpen ==
    /\ ready => db = "open"
    /\ \A t \in Threads :
           /\ pc[t] = "turnon" => (db = "open" /\ ~ready)
           /\ pc[t] = "close" => (db = "open" /\ ~ready)

\* A restart: the engine is ready again on a handle that a Start has just
\* opened, the other thread's last call having been a Stop that closed the
\* handle before.
C33_Witness ==
    \E t, u \in Threads :
        /\ t # u
        /\ pc[t] = "unlock" /\ tcall[t].op = "Start" /\ tcall[t].opened
        /\ tcall[u].op = "Stop" /\ tcall[u].closed
        /\ ready /\ db = "open"

====
